---- MODULE Spec2Model ----
(***************************************************************************)
(* mcp-gcloud-adc: the proxy request/notification handler (handler.ts),    *)
(* the Google ID-token client with its cache (google-auth.ts), the session *)
(* manager (session-manager.ts) and the JSON-RPC error constructors        *)
(* (mcp-proxy-handlers.ts).                                                *)
(*                                                                         *)
(* JavaScript runs a handler without interruption between two awaits, so   *)
(* an action is the code from one await to the next.  The continuation     *)
(* that follows `await getIdToken` touches only the invocation's own       *)
(* locals (it sets the Authorization header and dispatches the post), so   *)
(* it is taken together with the step that resolves the token.             *)
(*                                                                         *)
(* A string built by concatenation is the sequence of its parts; an        *)
(* object is a record or a function whose DOMAIN is the set of its keys.   *)
(***************************************************************************)
EXTENDS Bags, FiniteSets, Integers, Sequences, TLC

\* ------------------------------------------------------------------ bounds
MaxCalls == 2
MaxTicks == 2
MaxOps == 3

\* ------------------------------------------------------- program constants
buffer == 5 * 60 * 1000
DefaultValidity == 60 * 60 * 1000

\* the step of the clock read by new Date() / Date.now(), milliseconds
TickMs == 60 * 1000

Null == "<null>"
Pending == [type |-> "pending"]

\* ------------------------------------------------------------ JS helpers
Truthy(s) == s # Null /\ s # ""

Get(obj, key) == IF key \in DOMAIN obj THEN obj[key] ELSE Null

Put(obj, key, val) == (key :> val) @@ obj

StartsWith(s, prefix) == Len(s) >= 1 /\ s[1] = prefix

\* error instanceof Error ? error.message : "Unknown error"
ErrorText(error) == IF error.isError THEN error.message ELSE <<"Unknown error">>

\* --------------------------------------------------------- session manager
\* (variant: the slot is not consulted)
getSessionIdNone(sid) == Null

getSessionId(sid) == sid

\* (variant: the assignment is missing)
setSessionIdDropped(sid, newSessionId) == sid

\* (variant: an empty id is refused)
setSessionIdValidated(sid, newSessionId) == IF newSessionId = "" THEN sid ELSE newSessionId

setSessionId(sid, newSessionId) == newSessionId

\* (variant: the assignment is missing)
clearSessionKept(sid) == sid

clearSession(sid) == Null

\* ------------------------------------------------------------ google-auth
\* new URL(audience): the protocol of the parsed URL, Null when the
\* constructor throws.  WHATWG parsing lower-cases the scheme.
Audiences == {"https://example.com", "HTTPS://EXAMPLE.COM/api",
              "http://example.com", "ftp://example.com", "not-a-url"}

URLProtocol(audience) ==
    CASE audience = "https://example.com" -> "https:"
      [] audience = "HTTPS://EXAMPLE.COM/api" -> "https:"
      [] audience = "http://example.com" -> "http:"
      [] audience = "http://localhost:3000" -> "http:"
      [] audience = "ftp://example.com" -> "ftp:"
      [] OTHER -> Null

\* (variant: the protocol is not compared)
isValidAudienceAnyScheme(audience) == URLProtocol(audience) # Null

isValidAudience(audience) == URLProtocol(audience) = "https:"

getCachedToken(cache, audience) == Get(cache, audience)

\* (variant: >= in place of >)
isTokenValidInclusive(expiresAt, t) == expiresAt - t >= buffer

isTokenValid(expiresAt, t) == expiresAt - t > buffer

\* A token string: its dot-delimited segment count and what the base64/JSON
\* decoding of its second segment yields.
\*   payload "exp": JSON object with a numeric exp (seconds)
\*   payload "noexp": JSON object without a numeric exp
\*   payload "garbage": JSON.parse throws;  payload "empty": empty segment
\* (variant: the number of segments is not checked)
extractTokenExpirationAnyParts(token, t) ==
    IF token.payload = "empty" THEN t + DefaultValidity
    ELSE IF token.payload = "exp" THEN token.exp * 1000
    ELSE t + DefaultValidity

extractTokenExpiration(token, t) ==
    IF token.parts # 3 THEN t + DefaultValidity
    ELSE IF token.payload = "empty" THEN t + DefaultValidity
    ELSE IF token.payload = "exp" THEN token.exp * 1000
    ELSE t + DefaultValidity

AuthError(kind, message) ==
    [type |-> "error", error |-> [kind |-> kind, message |-> message]]

AuthSuccess(token, expiresAt) ==
    [type |-> "success", token |-> token, expiresAt |-> expiresAt]

NoCredentialsMessage ==
    <<"No credentials found. Please run \"gcloud auth application-default login\" or set GOOGLE_APPLICATION_CREDENTIALS environment variable.">>

NoIdTokenSupportMessage ==
    <<"The authenticated client does not support ID token generation.">>

\* !idToken || typeof idToken !== "string"
Unusable(v) == ~v.truthy \/ v.jstype # "string"

\* getIdToken up to its first await: the result, or Pending when
\* fetchNewToken has been entered and awaits googleAuth.getClient().
HasEntry(cache, audience) == audience \in DOMAIN cache

getIdTokenSync(cache, audience, t) ==
    IF ~isValidAudience(audience)
    THEN AuthError("invalid-audience",
                   <<"Invalid audience: ", audience, ". Must be a valid HTTPS URL.">>)
    ELSE IF HasEntry(cache, audience)
            /\ isTokenValid(getCachedToken(cache, audience).expiresAt, t)
    THEN AuthSuccess(getCachedToken(cache, audience).token,
                     getCachedToken(cache, audience).expiresAt)
    ELSE Pending

\* (variant: a client without fetchIdToken is reported with the message of
\* the missing client)
fetchAfterGetClientOneMessage(outcome) ==
    IF outcome.kind = "throw"
    THEN AuthError("token-fetch-failed",
                   <<"Failed to fetch ID token: ">> \o ErrorText(outcome.error))
    ELSE IF outcome.kind = "null"
    THEN AuthError("no-credentials", NoCredentialsMessage)
    ELSE IF ~outcome.hasFetchIdToken
    THEN AuthError("no-credentials", NoCredentialsMessage)
    ELSE Pending

\* fetchNewToken from the resolution of getClient() to the next await:
\* a result, or Pending when client.fetchIdToken(audience) has been called.
fetchAfterGetClient(outcome) ==
    IF outcome.kind = "throw"
    THEN AuthError("token-fetch-failed",
                   <<"Failed to fetch ID token: ">> \o ErrorText(outcome.error))
    ELSE IF outcome.kind = "null"
    THEN AuthError("no-credentials", NoCredentialsMessage)
    ELSE IF ~outcome.hasFetchIdToken
    THEN AuthError("no-credentials", NoIdTokenSupportMessage)
    ELSE Pending

\* (variant: an unusable value is reported as a failed fetch)
fetchAfterIdTokenSameKind(outcome, t) ==
    IF outcome.kind = "throw"
    THEN AuthError("token-fetch-failed",
                   <<"Failed to fetch ID token: ">> \o ErrorText(outcome.error))
    ELSE IF Unusable(outcome.value)
    THEN AuthError("token-fetch-failed", <<"Failed to retrieve a valid ID token.">>)
    ELSE AuthSuccess(outcome.value, extractTokenExpiration(outcome.value, t))

\* (variant: a token that is not valid for more than the buffer is refused)
fetchAfterIdTokenCheckExpiry(outcome, t) ==
    IF outcome.kind = "throw"
    THEN AuthError("token-fetch-failed",
                   <<"Failed to fetch ID token: ">> \o ErrorText(outcome.error))
    ELSE IF Unusable(outcome.value)
    THEN AuthError("invalid-token", <<"Failed to retrieve a valid ID token.">>)
    ELSE IF ~isTokenValid(extractTokenExpiration(outcome.value, t), t)
    THEN AuthError("invalid-token", <<"Failed to retrieve a valid ID token.">>)
    ELSE AuthSuccess(outcome.value, extractTokenExpiration(outcome.value, t))

\* fetchNewToken from the resolution of fetchIdToken(audience) to its return.
fetchAfterIdToken(outcome, t) ==
    IF outcome.kind = "throw"
    THEN AuthError("token-fetch-failed",
                   <<"Failed to fetch ID token: ">> \o ErrorText(outcome.error))
    ELSE IF Unusable(outcome.value)
    THEN AuthError("invalid-token", <<"Failed to retrieve a valid ID token.">>)
    ELSE AuthSuccess(outcome.value, extractTokenExpiration(outcome.value, t))

\* (variant: an existing entry is kept, the first write wins)
cacheAfterFetchKeepFirst(cache, audience, result) ==
    IF result.type = "success" /\ ~HasEntry(cache, audience)
    THEN (audience :> [token |-> result.token, expiresAt |-> result.expiresAt]) @@ cache
    ELSE cache

\* (variant: a failed fetch drops the audience's entry)
cacheAfterFetchDropOnError(cache, audience, result) ==
    IF result.type = "success"
    THEN (audience :> [token |-> result.token, expiresAt |-> result.expiresAt]) @@ cache
    ELSE [a \in DOMAIN cache \ {audience} |-> cache[a]]

\* state.tokenCache[audience] = { token, expiresAt } on success only
cacheAfterFetch(cache, audience, result) ==
    IF result.type = "success"
    THEN (audience :> [token |-> result.token, expiresAt |-> result.expiresAt]) @@ cache
    ELSE cache

\* (variant: the entry is not deleted)
cacheDeleteKept(cache, audience) == cache

\* delete state.tokenCache[audience]
cacheDelete(cache, audience) ==
    [a \in DOMAIN cache \ {audience} |-> cache[a]]

\* ------------------------------------------------------ mcp-proxy-handlers
\* typeof data === "object" && data (a record without jstype is an object)
IsObject(data) ==
    IF "jstype" \in DOMAIN data THEN data.truthy /\ data.jstype = "object" ELSE TRUE

JsTruthy(data) == IF "truthy" \in DOMAIN data THEN data.truthy ELSE TRUE

\* (variant: the id member is not required)
isValidJSONRPCResponseNoIdCheck(data) ==
    IF ~IsObject(data) THEN FALSE
    ELSE IF "jstype" \in DOMAIN data THEN FALSE
    ELSE IF ~("jsonrpc" \in DOMAIN data) THEN FALSE
    ELSE IF data.jsonrpc # "2.0" THEN FALSE
    ELSE "result" \in DOMAIN data \/ "error" \in DOMAIN data

isValidJSONRPCResponse(data) ==
    IF ~IsObject(data) THEN FALSE
    ELSE IF "jstype" \in DOMAIN data THEN FALSE
    ELSE IF ~("jsonrpc" \in DOMAIN data) THEN FALSE
    ELSE IF data.jsonrpc # "2.0" THEN FALSE
    ELSE IF ~("id" \in DOMAIN data) THEN FALSE
    ELSE "result" \in DOMAIN data \/ "error" \in DOMAIN data

\* (variant: data is never attached)
createErrorResponseNoData(id, code, message, data) ==
    [jsonrpc |-> "2.0",
     id |-> id,
     error |-> [code |-> code, message |-> message]]

createErrorResponse(id, code, message, data) ==
    [jsonrpc |-> "2.0",
     id |-> id,
     error |-> IF JsTruthy(data)
               THEN [code |-> code, message |-> message, data |-> data]
               ELSE [code |-> code, message |-> message]]

\* (variant: the 4xx range is tested before 404)
mapHttpStatusToJsonRpcCodeRangeFirst(status) ==
    IF status = 401 \/ status = 403 THEN -32002
    ELSE IF status >= 400 /\ status < 500 THEN -32602
    ELSE IF status = 404 THEN -32601
    ELSE IF status >= 500 THEN -32603
    ELSE -32603

mapHttpStatusToJsonRpcCode(status) ==
    IF status = 401 \/ status = 403 THEN -32002
    ELSE IF status = 404 THEN -32601
    ELSE IF status >= 400 /\ status < 500 THEN -32602
    ELSE IF status >= 500 THEN -32603
    ELSE -32603

\* (variant: a parse error is given the internal-error code)
createErrorResponseFromHttpErrorParseInternal(id, httpError) ==
    CASE httpError.kind = "network-error" ->
           createErrorResponse(id, -32603, <<"Network error: ">> \o httpError.message,
                               [kind |-> httpError.kind])
      [] httpError.kind = "timeout" ->
           createErrorResponse(id, -32603, <<"Request timeout: ">> \o httpError.message,
                               [kind |-> httpError.kind])
      [] httpError.kind = "http-error" ->
           createErrorResponse(id, mapHttpStatusToJsonRpcCode(httpError.status),
                               <<"HTTP error: ">> \o httpError.message,
                               [kind |-> httpError.kind, status |-> httpError.status,
                                body |-> httpError.body])
      [] httpError.kind = "parse-error" ->
           createErrorResponse(id, -32603, <<"Parse error: ">> \o httpError.message,
                               [kind |-> httpError.kind])
      [] OTHER ->
           createErrorResponse(id, -32603, <<"Unknown HTTP error: ">> \o httpError.message,
                               httpError)

createErrorResponseFromHttpError(id, httpError) ==
    CASE httpError.kind = "network-error" ->
           createErrorResponse(id, -32603, <<"Network error: ">> \o httpError.message,
                               [kind |-> httpError.kind])
      [] httpError.kind = "timeout" ->
           createErrorResponse(id, -32603, <<"Request timeout: ">> \o httpError.message,
                               [kind |-> httpError.kind])
      [] httpError.kind = "http-error" ->
           createErrorResponse(id, mapHttpStatusToJsonRpcCode(httpError.status),
                               <<"HTTP error: ">> \o httpError.message,
                               [kind |-> httpError.kind, status |-> httpError.status,
                                body |-> httpError.body])
      [] httpError.kind = "parse-error" ->
           createErrorResponse(id, -32700, <<"Parse error: ">> \o httpError.message,
                               [kind |-> httpError.kind])
      [] OTHER ->
           createErrorResponse(id, -32603, <<"Unknown HTTP error: ">> \o httpError.message,
                               httpError)

\* (variant: no catch clause, the exception leaves the handler)
createInternalErrorResponseRethrow(id, error) ==
    [rejected |-> TRUE, error |-> error]

createInternalErrorResponse(id, error) ==
    createErrorResponse(id, -32603, <<"Internal error: ">> \o ErrorText(error), error)

\* (variant: the message is passed on without the prefix)
createAuthErrorResponseNoPrefix(id, message, error) ==
    createErrorResponse(id, -32603, message, error)

createAuthErrorResponse(id, message, error) ==
    createErrorResponse(id, -32603, <<"Authentication failed: ">> \o message, error)

createInvalidResponseErrorResponse(id, responseData) ==
    createErrorResponse(id, -32603, <<"Invalid response format from target server">>,
                        [received |-> responseData])

isJSONRPCRequest(message) == "method" \in DOMAIN message /\ "id" \in DOMAIN message

isJSONRPCNotification(message) == "method" \in DOMAIN message /\ ~("id" \in DOMAIN message)

\* ------------------------------------------------------------------- state
VARIABLES
    targetUrl,    \* config.targetUrl
    sessionId,    \* the session manager's slot (string or Null)
    tokenCache,   \* state.tokenCache: audience -> [token, expiresAt]
    now,          \* Date.now(), milliseconds
    calls,        \* bag of the invocations suspended at an await
    done,         \* the invocation that returned in the last step, or NoDone
    upstream      \* what the upstream last said about the session (observer)

vars == <<targetUrl, sessionId, tokenCache, now, calls, done, upstream>>

NoDone == [pc |-> "none"]
EmptyCache == [a \in {} |-> Null]
InFlight == BagToSet(calls)
Add(b, r) == b (+) SetToBag({r})
Remove(b, r) == b (-) SetToBag({r})
CanStart == done = NoDone /\ BagCardinality(calls) < MaxCalls

\* ------------------------------------------------- environment (samples)
SessionIds == {"s1", "s2"}

TargetUrls == {"https://example.com", "http://localhost:3000"}

Requests == {[jsonrpc |-> "2.0", id |-> 1, method |-> "initialize"],
             [jsonrpc |-> "2.0", id |-> 2, method |-> "tools/list"]}

Notifications == {[jsonrpc |-> "2.0", method |-> "notifications/cancelled"]}

OtherMessages == {[jsonrpc |-> "2.0", id |-> 1, result |-> "ok"]}

Messages == Requests \cup Notifications \cup OtherMessages

Thrown == {[isError |-> TRUE, message |-> <<"boom">>],
           [isError |-> FALSE, jstype |-> "string", truthy |-> TRUE],
           [isError |-> FALSE, jstype |-> "undefined", truthy |-> FALSE]}

\* what googleAuth.getClient() resolves to
ClientOutcomes == {[kind |-> "client", hasFetchIdToken |-> TRUE],
                   [kind |-> "client", hasFetchIdToken |-> FALSE],
                   [kind |-> "null"]}
                  \cup {[kind |-> "throw", error |-> e] : e \in Thrown}

Jwt(name, exp) ==
    [jstype |-> "string", truthy |-> TRUE, name |-> name, parts |-> 3,
     payload |-> "exp", exp |-> exp]

Opaque(name) ==
    [jstype |-> "string", truthy |-> TRUE, name |-> name, parts |-> 1,
     payload |-> "empty", exp |-> 0]

UnusableValues == {[jstype |-> "string", truthy |-> FALSE],
                   [jstype |-> "undefined", truthy |-> FALSE],
                   [jstype |-> "number", truthy |-> TRUE]}

\* offsets (ms) of the exp claim of a minted token from the time of the fetch
ExpOffsets == {0 - TickMs, 0, buffer, buffer + TickMs}

RichTokens(t) == {Jwt("A", (t + off) \div 1000) : off \in ExpOffsets}
                 \cup {Jwt("B", (t + buffer + TickMs) \div 1000), Opaque("C")}

PlainTokens(t) == {Jwt("A", (t + DefaultValidity) \div 1000)}

\* what client.fetchIdToken(audience) resolves to
IdTokenOutcomes(tokens) ==
    {[kind |-> "value", value |-> v] : v \in tokens \cup UnusableValues}
    \cup {[kind |-> "throw", error |-> e] : e \in Thrown}

ResponseHeaders ==
    {("content-type" :> "application/json")}
    \cup {("mcp-session-id" :> s) @@ ("content-type" :> "application/json") : s \in SessionIds \cup {""}}
    \cup {("Mcp-Session-Id" :> "s1") @@ ("content-type" :> "application/json")}

ResponseBodies ==
    {[jsonrpc |-> "2.0", id |-> 1, result |-> "ok"],
     [jsonrpc |-> "2.0", id |-> 2, error |-> [code |-> -32000, message |-> <<"upstream">>]],
     [jsonrpc |-> "1.0", id |-> 1, result |-> "ok"],
     [jsonrpc |-> "2.0", result |-> "ok"],
     [jsonrpc |-> "2.0", id |-> 1],
     [jstype |-> "string", truthy |-> TRUE],
     [jstype |-> "object", truthy |-> FALSE]}

HttpErrors ==
    {[kind |-> "network-error", message |-> <<"fetch failed">>],
     [kind |-> "timeout", message |-> <<"Request timed out">>],
     [kind |-> "parse-error", message |-> <<"Failed to parse response as JSON">>]}
    \cup {[kind |-> "http-error", status |-> st, message |-> <<"HTTP status">>, body |-> "body"]
          : st \in {401, 403, 404, 500}}

\* the statuses of a response that is not ok (outside 200..299)
HttpStatuses == 300 .. 599

\* what httpClient.post resolves to (or rejects with)
HttpOutcomes ==
    {[type |-> "success", data |-> d, status |-> 200, headers |-> h]
       : d \in ResponseBodies, h \in ResponseHeaders}
    \cup {[type |-> "error", error |-> e] : e \in HttpErrors}
    \cup {[type |-> "thrown", error |-> e] : e \in Thrown}

\* ------------------------------------------------ http-client (fetch based)
\* what fetch(url, init) does with a post: it resolves to a Response, it
\* rejects with the AbortError of controller.abort(), or it rejects with
\* something else
Timeout == 5000

\* response bodies as text, and what JSON.parse makes of them
WireTexts == {"json:result", "json:error", "json:string", "", "<html>",
              "sse:result", "sse:nodata", "sse:garbage"}

JsonParses(text) == text \in {"json:result", "json:error", "json:string"}

JSONParse(text) ==
    CASE text = "json:result" -> [jsonrpc |-> "2.0", id |-> 1, result |-> "ok"]
      [] text = "json:error" ->
           [jsonrpc |-> "2.0", id |-> 2,
            error |-> [code |-> -32000, message |-> <<"upstream">>]]
      [] text = "json:string" -> [jstype |-> "string", truthy |-> TRUE]

\* responseText.includes("event: message\ndata: ")
IsSse(text) == text \in {"sse:result", "sse:nodata", "sse:garbage"}

\* responseText.match(/data: (.+)/)?.[1], Null when there is no match
SseData(text) ==
    CASE text = "sse:result" -> "json:result"
      [] text = "sse:garbage" -> "<html>"
      [] OTHER -> Null

StatusText(status) ==
    CASE status = 200 -> "OK"
      [] status = 201 -> "Created"
      [] status = 404 -> "Not Found"
      [] status = 500 -> "Internal Server Error"
      [] OTHER -> ""

WireStatuses == {200, 201, 404, 500}

\* header names as the upstream writes them
WireSessionNames == {"mcp-session-id", "Mcp-Session-Id", "MCP-SESSION-ID"}

\* Headers.forEach hands out names in lower case
Lower(name) ==
    CASE name \in WireSessionNames -> "mcp-session-id"
      [] name = "Content-Type" -> "content-type"
      [] OTHER -> name

WireHeaders ==
    {("Content-Type" :> "application/json")}
    \cup {(n :> sid) @@ ("Content-Type" :> "application/json")
             : n \in WireSessionNames, sid \in {"s1"}}
    \cup {("mcp-session-id" :> "") @@ ("Content-Type" :> "application/json")}

WireOutcomes ==
    {[kind |-> "response", status |-> st, headers |-> h, text |-> t, readable |-> rd]
       : st \in WireStatuses, h \in WireHeaders, t \in WireTexts, rd \in BOOLEAN}
    \cup {[kind |-> "abort"]}
    \cup {[kind |-> "throw", error |-> e] : e \in Thrown}

NoWire == [kind |-> "none"]

\* (variant: the names are copied as the upstream wrote them)
extractHeadersVerbatim(headers) == headers

extractHeaders(headers) ==
    [k \in {Lower(n) : n \in DOMAIN headers} |->
        headers[CHOOSE n \in DOMAIN headers : Lower(n) = k]]

\* safeReadResponseText
safeReadResponseText(w) == IF w.readable THEN w.text ELSE ""

ParseError(message, text) ==
    [type |-> "error",
     error |-> [kind |-> "parse-error", message |-> message, body |-> text]]

\* (variant: the body is always handed to JSON.parse as a whole)
postJsonOnly(w) ==
    IF w.kind = "abort"
    THEN [type |-> "error",
          error |-> [kind |-> "timeout",
                     message |-> <<"Request timed out after ", ToString(Timeout), "ms">>]]
    ELSE IF w.kind = "throw"
    THEN [type |-> "error",
          error |-> [kind |-> "network-error",
                     message |-> IF w.error.isError THEN w.error.message
                                 ELSE <<"Unknown network error">>,
                     originalError |-> w.error]]
    ELSE IF ~(w.status >= 200 /\ w.status <= 299)
    THEN [type |-> "error",
          error |-> [kind |-> "http-error", status |-> w.status,
                     message |-> <<"HTTP ", ToString(w.status), " ", StatusText(w.status)>>,
                     body |-> safeReadResponseText(w)]]
    ELSE IF ~w.readable
    THEN [type |-> "error",
          error |-> [kind |-> "network-error", message |-> <<"Body is unusable">>,
                     originalError |-> [isError |-> TRUE, message |-> <<"Body is unusable">>]]]
    ELSE IF JsonParses(w.text)
    THEN [type |-> "success", data |-> JSONParse(w.text),
          status |-> w.status, headers |-> extractHeaders(w.headers)]
    ELSE ParseError(<<"Failed to parse response as JSON">>, w.text)

\* what post(config) resolves to when fetch did w
post(w) ==
    IF w.kind = "abort"
    THEN [type |-> "error",
          error |-> [kind |-> "timeout",
                     message |-> <<"Request timed out after ", ToString(Timeout), "ms">>]]
    ELSE IF w.kind = "throw"
    THEN [type |-> "error",
          error |-> [kind |-> "network-error",
                     message |-> IF w.error.isError THEN w.error.message
                                 ELSE <<"Unknown network error">>,
                     originalError |-> w.error]]
    ELSE IF ~(w.status >= 200 /\ w.status <= 299)
    THEN [type |-> "error",
          error |-> [kind |-> "http-error", status |-> w.status,
                     message |-> <<"HTTP ", ToString(w.status), " ", StatusText(w.status)>>,
                     body |-> safeReadResponseText(w)]]
    ELSE IF ~w.readable
    THEN [type |-> "error",
          error |-> [kind |-> "network-error", message |-> <<"Body is unusable">>,
                     originalError |-> [isError |-> TRUE, message |-> <<"Body is unusable">>]]]
    ELSE IF IsSse(w.text)
    THEN IF SseData(w.text) = Null
         THEN ParseError(<<"SSE format but no data found">>, w.text)
         ELSE IF JsonParses(SseData(w.text))
         THEN [type |-> "success", data |-> JSONParse(SseData(w.text)),
               status |-> w.status, headers |-> extractHeaders(w.headers)]
         ELSE ParseError(<<"Failed to parse response as JSON">>, w.text)
    ELSE IF JsonParses(w.text)
    THEN [type |-> "success", data |-> JSONParse(w.text),
          status |-> w.status, headers |-> extractHeaders(w.headers)]
    ELSE ParseError(<<"Failed to parse response as JSON">>, w.text)

\* ------------------------------------------------------------- invocations
NoMsg == [none |-> TRUE]
NoPost == [url |-> Null]
NoThrow == [none |-> TRUE]
EmptyHeaders == [h \in {} |-> ""]
NoCounts == [getIdToken |-> 0, refreshToken |-> 0, getClient |-> 0,
             fetchIdToken |-> 0, post |-> 0]

BaseHeaders == ("Content-Type" :> "application/json")
               @@ ("Accept" :> "application/json, text/event-stream")

\* the session ids a response's headers carry (observer's reading)
SessionHeaderNames == {"mcp-session-id", "Mcp-Session-Id"}
CarriedIds(h) == {h[k] : k \in (DOMAIN h) \cap SessionHeaderNames} \ {""}

NewCall(op, msg, aud, hs) ==
    [op |-> op, msg |-> msg, aud |-> aud, pc |-> "start", headers |-> hs,
     authRes |-> Pending, httpRes |-> Pending, ret |-> Pending,
     sent |-> NoPost,
     n |-> [NoCounts EXCEPT !.getIdToken = 1,
                            !.refreshToken = IF op = "refreshToken" THEN 1 ELSE 0],
     sig |-> upstream, before |-> Null, fetched |-> Pending, evictedFresh |-> FALSE,
     read |-> getSessionId(sessionId), wire |-> NoWire]

IsHandler(r) == r.op \in {"handleRequest", "handleMessage"}

\* (variant: the session header is never added)
withSessionHeaderOmitted(hs, sid) == hs

\* handleRequest lines 33-38, handleMessage lines 141-146
withSessionHeader(hs, sid) ==
    IF Truthy(sid) THEN Put(hs, "Mcp-Session-Id", sid) ELSE hs

\* (variant: the post is issued a second time)
afterTokenPostTwice(r, res) ==
    IF ~IsHandler(r)
    THEN [r EXCEPT !.pc = "done", !.authRes = res, !.ret = res]
    ELSE IF res.type = "thrown"
    THEN [r EXCEPT !.pc = "done", !.authRes = res,
                   !.ret = IF isJSONRPCRequest(r.msg)
                           THEN createInternalErrorResponse(r.msg.id, res.error)
                           ELSE r.msg]
    ELSE IF res.type = "error"
    THEN [r EXCEPT !.pc = "done", !.authRes = res,
                   !.ret = IF isJSONRPCRequest(r.msg)
                           THEN createAuthErrorResponse(r.msg.id, res.error.message, res.error)
                           ELSE r.msg]
    ELSE [r EXCEPT !.pc = "http", !.authRes = res,
                   !.headers = Put(@, "Authorization", <<"Bearer ", res.token>>),
                   !.sent = [url |-> targetUrl,
                             headers |-> Put(r.headers, "Authorization", <<"Bearer ", res.token>>),
                             body |-> r.msg],
                   !.n.post = @ + 2]

\* (variant: a failed token resolution still dispatches the post)
afterTokenPostOnError(r, res) ==
    IF ~IsHandler(r)
    THEN [r EXCEPT !.pc = "done", !.authRes = res, !.ret = res]
    ELSE IF res.type = "thrown"
    THEN [r EXCEPT !.pc = "done", !.authRes = res,
                   !.ret = IF isJSONRPCRequest(r.msg)
                           THEN createInternalErrorResponse(r.msg.id, res.error)
                           ELSE r.msg]
    ELSE [r EXCEPT !.pc = "http", !.authRes = res,
                   !.sent = [url |-> targetUrl, headers |-> r.headers, body |-> r.msg],
                   !.n.post = @ + 1]

\* (variant: the session header is built when the post is dispatched)
afterTokenSessionAtDispatch(r, res) ==
    IF ~IsHandler(r)
    THEN [r EXCEPT !.pc = "done", !.authRes = res, !.ret = res]
    ELSE IF res.type = "thrown"
    THEN [r EXCEPT !.pc = "done", !.authRes = res,
                   !.ret = IF isJSONRPCRequest(r.msg)
                           THEN createInternalErrorResponse(r.msg.id, res.error)
                           ELSE r.msg]
    ELSE IF res.type = "error"
    THEN [r EXCEPT !.pc = "done", !.authRes = res,
                   !.ret = IF isJSONRPCRequest(r.msg)
                           THEN createAuthErrorResponse(r.msg.id, res.error.message, res.error)
                           ELSE r.msg]
    ELSE LET hs == Put(withSessionHeader(BaseHeaders, getSessionId(sessionId)),
                       "Authorization", <<"Bearer ", res.token>>)
         IN  [r EXCEPT !.pc = "http", !.authRes = res, !.headers = hs,
                       !.sent = [url |-> targetUrl, headers |-> hs, body |-> r.msg],
                       !.n.post = @ + 1]

\* the code that runs once `await getIdToken(...)` has settled with res
afterToken(r, res) ==
    IF ~IsHandler(r)
    THEN [r EXCEPT !.pc = "done", !.authRes = res, !.ret = res]
    ELSE IF res.type = "thrown"
    THEN [r EXCEPT !.pc = "done", !.authRes = res,
                   !.ret = IF isJSONRPCRequest(r.msg)
                           THEN createInternalErrorResponse(r.msg.id, res.error)
                           ELSE r.msg]
    ELSE IF res.type = "error"
    THEN [r EXCEPT !.pc = "done", !.authRes = res,
                   !.ret = IF isJSONRPCRequest(r.msg)
                           THEN createAuthErrorResponse(r.msg.id, res.error.message, res.error)
                           ELSE r.msg]
    ELSE [r EXCEPT !.pc = "http", !.authRes = res,
                   !.headers = Put(@, "Authorization", <<"Bearer ", res.token>>),
                   !.sent = [url |-> targetUrl,
                             headers |-> Put(r.headers, "Authorization", <<"Bearer ", res.token>>),
                             body |-> r.msg],
                   !.n.post = @ + 1]

\* the session slot after the handler has seen the transport's result
\* (variant: the session header of any successful response is stored)
sessionAfterHttpAnyMethod(r, res, sid) ==
    IF res.type = "thrown" THEN sid
    ELSE IF res.type = "error"
    THEN IF res.error.kind = "http-error" /\ res.error.status = 404
         THEN clearSession(sid)
         ELSE sid
    ELSE IF TRUE
    THEN LET responseSessionId ==
                 IF Truthy(Get(res.headers, "mcp-session-id"))
                 THEN Get(res.headers, "mcp-session-id")
                 ELSE Get(res.headers, "Mcp-Session-Id")
         IN  IF Truthy(responseSessionId)
             THEN setSessionId(sid, responseSessionId)
             ELSE sid
    ELSE sid

\* (variant: every HTTP error status clears the session)
sessionAfterHttpAnyStatus(r, res, sid) ==
    IF res.type = "thrown" THEN sid
    ELSE IF res.type = "error"
    THEN IF res.error.kind = "http-error"
         THEN clearSession(sid)
         ELSE sid
    ELSE IF isJSONRPCRequest(r.msg) /\ r.msg.method = "initialize"
    THEN LET responseSessionId ==
                 IF Truthy(Get(res.headers, "mcp-session-id"))
                 THEN Get(res.headers, "mcp-session-id")
                 ELSE Get(res.headers, "Mcp-Session-Id")
         IN  IF Truthy(responseSessionId)
             THEN setSessionId(sid, responseSessionId)
             ELSE sid
    ELSE sid

\* (variant: the session header is looked at only after the body validated)
sessionAfterHttpValidatedFirst(r, res, sid) ==
    IF res.type = "thrown" THEN sid
    ELSE IF res.type = "error"
    THEN IF res.error.kind = "http-error" /\ res.error.status = 404
         THEN clearSession(sid)
         ELSE sid
    ELSE IF isJSONRPCRequest(r.msg) /\ r.msg.method = "initialize"
            /\ isValidJSONRPCResponse(res.data)
    THEN LET responseSessionId ==
                 IF Truthy(Get(res.headers, "mcp-session-id"))
                 THEN Get(res.headers, "mcp-session-id")
                 ELSE Get(res.headers, "Mcp-Session-Id")
         IN  IF Truthy(responseSessionId)
             THEN setSessionId(sid, responseSessionId)
             ELSE sid
    ELSE sid

\* (variant: a 404 clears the session only if it is the one the call sent)
sessionAfterHttpOwnSession(r, res, sid) ==
    IF res.type = "thrown" THEN sid
    ELSE IF res.type = "error"
    THEN IF res.error.kind = "http-error" /\ res.error.status = 404 /\ sid = r.read
         THEN clearSession(sid)
         ELSE sid
    ELSE IF isJSONRPCRequest(r.msg) /\ r.msg.method = "initialize"
    THEN LET responseSessionId ==
                 IF Truthy(Get(res.headers, "mcp-session-id"))
                 THEN Get(res.headers, "mcp-session-id")
                 ELSE Get(res.headers, "Mcp-Session-Id")
         IN  IF Truthy(responseSessionId)
             THEN setSessionId(sid, responseSessionId)
             ELSE sid
    ELSE sid

sessionAfterHttp(r, res, sid) ==
    IF res.type = "thrown" THEN sid
    ELSE IF res.type = "error"
    THEN IF res.error.kind = "http-error" /\ res.error.status = 404
         THEN clearSession(sid)
         ELSE sid
    ELSE IF isJSONRPCRequest(r.msg) /\ r.msg.method = "initialize"
    THEN LET responseSessionId ==
                 IF Truthy(Get(res.headers, "mcp-session-id"))
                 THEN Get(res.headers, "mcp-session-id")
                 ELSE Get(res.headers, "Mcp-Session-Id")
         IN  IF Truthy(responseSessionId)
             THEN setSessionId(sid, responseSessionId)
             ELSE sid
    ELSE sid

\* what the invocation returns once `await httpClient.post(...)` has settled
\* (variant: a notification reports the transport's error)
returnAfterHttpNotifyError(r, res) ==
    IF ~isJSONRPCRequest(r.msg)
    THEN IF res.type = "error" THEN createErrorResponseFromHttpError(0, res.error)
         ELSE r.msg
    ELSE IF res.type = "thrown" THEN createInternalErrorResponse(r.msg.id, res.error)
    ELSE IF res.type = "error" THEN createErrorResponseFromHttpError(r.msg.id, res.error)
    ELSE IF ~isValidJSONRPCResponse(res.data)
    THEN createInvalidResponseErrorResponse(r.msg.id, res.data)
    ELSE res.data

\* (variant: an upstream JSON-RPC error is re-coded as an internal error)
returnAfterHttpRecoded(r, res) ==
    IF ~isJSONRPCRequest(r.msg) THEN r.msg
    ELSE IF res.type = "thrown" THEN createInternalErrorResponse(r.msg.id, res.error)
    ELSE IF res.type = "error" THEN createErrorResponseFromHttpError(r.msg.id, res.error)
    ELSE IF ~isValidJSONRPCResponse(res.data)
    THEN createInvalidResponseErrorResponse(r.msg.id, res.data)
    ELSE IF "error" \in DOMAIN res.data
    THEN createErrorResponse(r.msg.id, -32603, res.data.error.message, res.data.error)
    ELSE res.data

\* (variant: the internal-error response carries the post's config)
returnAfterHttpWithConfig(r, res) ==
    IF ~isJSONRPCRequest(r.msg) THEN r.msg
    ELSE IF res.type = "thrown"
    THEN createErrorResponse(r.msg.id, -32603,
                             <<"Internal error: ">> \o ErrorText(res.error), r.sent)
    ELSE IF res.type = "error" THEN createErrorResponseFromHttpError(r.msg.id, res.error)
    ELSE IF ~isValidJSONRPCResponse(res.data)
    THEN createInvalidResponseErrorResponse(r.msg.id, res.data)
    ELSE res.data

returnAfterHttp(r, res) ==
    IF ~isJSONRPCRequest(r.msg) THEN r.msg
    ELSE IF res.type = "thrown" THEN createInternalErrorResponse(r.msg.id, res.error)
    ELSE IF res.type = "error" THEN createErrorResponseFromHttpError(r.msg.id, res.error)
    ELSE IF ~isValidJSONRPCResponse(res.data)
    THEN createInvalidResponseErrorResponse(r.msg.id, res.data)
    ELSE res.data

\* observer: the upstream's last word on the session
upstreamAfter(r, res) ==
    IF res.type = "error" /\ res.error.kind = "http-error" /\ res.error.status = 404
    THEN [kind |-> "gone", sid |-> Null]
    ELSE IF res.type = "success" /\ isJSONRPCRequest(r.msg)
            /\ r.msg.method = "initialize" /\ CarriedIds(res.headers) # {}
    THEN [kind |-> "issued", sid |-> CHOOSE s \in CarriedIds(res.headers) : TRUE]
    ELSE upstream

\* an invocation either returns (it becomes `done`) or stays suspended
Commit(old, new) ==
    IF new.pc = "done"
    THEN /\ calls' = old
         /\ done' = [new EXCEPT !.before = sessionId]
    ELSE /\ calls' = Add(old, new)
         /\ done' = done

\* ------------------------------------------------------------------ actions
\* (variant: handleMessage has no pass-through branch, every message that is
\* not a request takes the notification path)
StartHandlerNoPassThrough(op, msg, reject) ==
    /\ CanStart
    /\ LET r0 == NewCall(op, msg, targetUrl,
                         withSessionHeader(BaseHeaders, getSessionId(sessionId)))
           sync == getIdTokenSync(tokenCache, targetUrl, now)
       IN  IF reject # NoThrow
           THEN Commit(calls, afterToken(r0, [type |-> "thrown", error |-> reject]))
           ELSE IF sync = Pending
           THEN Commit(calls, [r0 EXCEPT !.pc = "getClient", !.n.getClient = @ + 1])
           ELSE Commit(calls, afterToken(r0, sync))
    /\ UNCHANGED <<targetUrl, sessionId, tokenCache, now, upstream>>

\* proxy.handleRequest(msg) / proxy.handleMessage(msg) up to the first await.
\* config.authClient is any AuthClient: reject is what its promise rejects
\* with, NoThrow for the google-auth client, which never rejects.
StartHandler(op, msg, reject) ==
    /\ CanStart
    /\ IF op = "handleMessage" /\ ~isJSONRPCRequest(msg) /\ ~isJSONRPCNotification(msg)
       THEN /\ done' = [NewCall(op, msg, targetUrl, EmptyHeaders)
                           EXCEPT !.pc = "done", !.ret = msg, !.n = NoCounts,
                                  !.before = sessionId, !.read = Null]
            /\ UNCHANGED calls
       ELSE LET r0 == NewCall(op, msg, targetUrl,
                              withSessionHeader(BaseHeaders, getSessionId(sessionId)))
                sync == getIdTokenSync(tokenCache, targetUrl, now)
            IN  IF reject # NoThrow
                THEN Commit(calls, afterToken(r0, [type |-> "thrown", error |-> reject]))
                ELSE IF sync = Pending
                THEN Commit(calls, [r0 EXCEPT !.pc = "getClient", !.n.getClient = @ + 1])
                ELSE Commit(calls, afterToken(r0, sync))
    /\ UNCHANGED <<targetUrl, sessionId, tokenCache, now, upstream>>

HandleRequest ==
    \E msg \in Requests, reject \in Thrown \cup {NoThrow} :
        StartHandler("handleRequest", msg, reject)

HandleMessage ==
    \E msg \in Messages, reject \in Thrown \cup {NoThrow} :
        StartHandler("handleMessage", msg, reject)

\* authClient.getIdToken(audience) / authClient.refreshToken(audience)
StartAuth(op, audience) ==
    /\ CanStart
    /\ LET cache1 == IF op = "refreshToken" THEN cacheDelete(tokenCache, audience)
                     ELSE tokenCache
           r0 == [NewCall(op, NoMsg, audience, EmptyHeaders)
                    EXCEPT !.evictedFresh =
                               /\ op = "refreshToken"
                               /\ HasEntry(tokenCache, audience)
                               /\ isTokenValid(tokenCache[audience].expiresAt, now)]
           sync == getIdTokenSync(cache1, audience, now)
       IN  /\ tokenCache' = cache1
           /\ IF sync = Pending
              THEN Commit(calls, [r0 EXCEPT !.pc = "getClient", !.n.getClient = @ + 1])
              ELSE Commit(calls, afterToken(r0, sync))
    /\ UNCHANGED <<targetUrl, sessionId, now, upstream>>

GetIdToken == \E audience \in Audiences : StartAuth("getIdToken", audience)

RefreshToken == \E audience \in Audiences : StartAuth("refreshToken", audience)

\* googleAuth.getClient() settles
GetClientDone ==
    \E r \in InFlight, outcome \in ClientOutcomes :
        /\ done = NoDone
        /\ r.pc = "getClient"
        /\ LET res == fetchAfterGetClient(outcome)
           IN  IF res = Pending
               THEN Commit(Remove(calls, r),
                           [r EXCEPT !.pc = "fetchIdToken", !.n.fetchIdToken = @ + 1,
                                     !.fetched = outcome])
               ELSE Commit(Remove(calls, r), afterToken([r EXCEPT !.fetched = outcome], res))
        /\ UNCHANGED <<targetUrl, sessionId, tokenCache, now, upstream>>

\* client.fetchIdToken(audience) settles
FetchIdTokenDone(tokens) ==
    \E r \in InFlight, outcome \in IdTokenOutcomes(tokens) :
        /\ done = NoDone
        /\ r.pc = "fetchIdToken"
        /\ LET res == fetchAfterIdToken(outcome, now)
           IN  /\ tokenCache' = cacheAfterFetch(tokenCache, r.aud, res)
               /\ Commit(Remove(calls, r), afterToken([r EXCEPT !.fetched = outcome], res))
        /\ UNCHANGED <<targetUrl, sessionId, now, upstream>>

FetchPlain == FetchIdTokenDone(PlainTokens(now))

FetchRich == FetchIdTokenDone(RichTokens(now))

\* httpClient.post(...) settles
HttpDone ==
    \E r \in InFlight, res \in HttpOutcomes :
        /\ done = NoDone
        /\ r.pc = "http"
        /\ sessionId' = sessionAfterHttp(r, res, sessionId)
        /\ upstream' = upstreamAfter(r, res)
        /\ Commit(Remove(calls, r),
                  [r EXCEPT !.pc = "done", !.httpRes = res, !.ret = returnAfterHttp(r, res)])
        /\ UNCHANGED <<targetUrl, tokenCache, now>>

\* httpClient.post(...) of the fetch based client settles: fetch did w
HttpDoneWire ==
    \E r \in InFlight, w \in WireOutcomes :
        /\ done = NoDone
        /\ r.pc = "http"
        /\ LET res == post(w)
           IN  /\ sessionId' = sessionAfterHttp(r, res, sessionId)
               /\ upstream' = upstreamAfter(r, res)
               /\ Commit(Remove(calls, r),
                         [r EXCEPT !.pc = "done", !.httpRes = res,
                                   !.ret = returnAfterHttp(r, res), !.wire = w])
        /\ UNCHANGED <<targetUrl, tokenCache, now>>

\* (variant: entries that have expired are swept when the clock advances)
TickSweep ==
    /\ done = NoDone
    /\ now + TickMs <= MaxTicks * TickMs
    /\ now' = now + TickMs
    /\ tokenCache' = [a \in {b \in DOMAIN tokenCache : tokenCache[b].expiresAt > now + TickMs}
                         |-> tokenCache[a]]
    /\ UNCHANGED <<targetUrl, sessionId, calls, done, upstream>>

\* the clock advances
Tick ==
    /\ done = NoDone
    /\ now + TickMs <= MaxTicks * TickMs
    /\ now' = now + TickMs
    /\ UNCHANGED <<targetUrl, sessionId, tokenCache, calls, done, upstream>>

\* the caller takes the value the invocation returned
Deliver ==
    /\ done # NoDone
    /\ done' = NoDone
    /\ UNCHANGED <<targetUrl, sessionId, tokenCache, now, calls, upstream>>

\* ------------------------------------------------------------ specifications
Init ==
    /\ targetUrl \in TargetUrls
    /\ sessionId = Null
    /\ tokenCache = EmptyCache
    /\ now = 0
    /\ calls = EmptyBag
    /\ done = NoDone
    /\ upstream = [kind |-> "none", sid |-> Null]

\* the proxy core over the google-auth client
Next ==
    \/ HandleRequest
    \/ HandleMessage
    \/ GetClientDone
    \/ FetchPlain
    \/ HttpDone
    \/ Deliver

Spec == Init /\ [][Next]_vars

\* the token manager alone, with the clock
InitAuth ==
    /\ targetUrl = "https://example.com"
    /\ sessionId = Null
    /\ tokenCache = EmptyCache
    /\ now = 0
    /\ calls = EmptyBag
    /\ done = NoDone
    /\ upstream = [kind |-> "none", sid |-> Null]

NextAuth ==
    \/ GetIdToken
    \/ RefreshToken
    \/ GetClientDone
    \/ FetchRich
    \/ Tick
    \/ Deliver

SpecAuth == InitAuth /\ [][NextAuth]_vars

\* one invocation at a time, with the transport's timer: post arms
\* setTimeout(() => controller.abort(), config.timeout), so the await of
\* post settles; no timer bounds the awaits of getClient() and
\* fetchIdToken(), so nothing forces those to settle.
HandleRequestAlone == calls = EmptyBag /\ HandleRequest

HandleMessageAlone == calls = EmptyBag /\ HandleMessage

NextLive ==
    \/ HandleRequestAlone
    \/ HandleMessageAlone
    \/ GetClientDone
    \/ FetchPlain
    \/ HttpDone
    \/ Deliver

SpecLive == Init /\ [][NextLive]_vars /\ WF_vars(HttpDone) /\ WF_vars(Deliver)

\* one invocation at a time, every awaited promise settles: getClient(),
\* fetchIdToken() and post() each resolve or reject
SpecSettle ==
    /\ Init /\ [][NextLive]_vars
    /\ WF_vars(GetClientDone) /\ WF_vars(FetchPlain)
    /\ WF_vars(HttpDone) /\ WF_vars(Deliver)

\* the proxy core over the fetch based http client, one invocation at a time
NextWire ==
    \/ HandleRequestAlone
    \/ HandleMessageAlone
    \/ GetClientDone
    \/ FetchPlain
    \/ HttpDoneWire
    \/ Deliver

SpecWire == Init /\ [][NextWire]_vars

\* the session manager alone: a caller applies up to MaxOps operations to a
\* new manager; done.log is what it called and what each call returned
SessionArgs == SessionIds \cup {""}

InitSession ==
    /\ targetUrl = "https://example.com"
    /\ sessionId = Null
    /\ tokenCache = EmptyCache
    /\ now = 0
    /\ calls = EmptyBag
    /\ done = [pc |-> "session", log |-> <<>>]
    /\ upstream = [kind |-> "none", sid |-> Null]

SessionOp(op, arg, ret, sid) ==
    /\ done.pc = "session"
    /\ Len(done.log) < MaxOps
    /\ sessionId' = sid
    /\ done' = [done EXCEPT !.log = Append(@, [op |-> op, arg |-> arg, ret |-> ret])]
    /\ UNCHANGED <<targetUrl, tokenCache, now, calls, upstream>>

GetSessionId == SessionOp("getSessionId", Null, getSessionId(sessionId), sessionId)

SetSessionId ==
    \E x \in SessionArgs : SessionOp("setSessionId", x, Null, setSessionId(sessionId, x))

ClearSession == SessionOp("clearSession", Null, Null, clearSession(sessionId))

NextSession ==
    \/ GetSessionId
    \/ SetSessionId
    \/ ClearSession

SpecSession == InitSession /\ [][NextSession]_vars

\* the error constructor of handleRequest line 77 alone, over every status
MapInputs ==
    {[pc |-> "input", id |-> m.id, error |-> e]
       : m \in Requests,
         e \in HttpErrors \cup {[kind |-> "http-error", status |-> st,
                                 message |-> <<"HTTP status">>, body |-> "body"]
                                  : st \in HttpStatuses}}

InitMap ==
    /\ targetUrl = "https://example.com"
    /\ sessionId = Null
    /\ tokenCache = EmptyCache
    /\ now = 0
    /\ calls = EmptyBag
    /\ done \in MapInputs
    /\ upstream = [kind |-> "none", sid |-> Null]

MapHttpError ==
    /\ done.pc = "input"
    /\ done' = [pc |-> "mapped", id |-> done.id, error |-> done.error,
                ret |-> createErrorResponseFromHttpError(done.id, done.error)]
    /\ UNCHANGED <<targetUrl, sessionId, tokenCache, now, calls, upstream>>

NextMap == MapHttpError

SpecMap == InitMap /\ [][NextMap]_vars

\* the stdio server binding: the handlers registerProxyHandlers registers
\* forward each inbound request through proxy.handleRequest and return
\* `proxyResponse.result || <default of the method>`
EmptyObject == [k \in {} |-> Null]

DefaultResult(method) ==
    CASE method = "tools/list" -> [tools |-> <<>>]
      [] method = "resources/list" -> [resources |-> <<>>]
      [] method = "prompts/list" -> [prompts |-> <<>>]
      [] OTHER -> EmptyObject

\* (variant: a response without result is handed on as it is)
registeredHandlerResultPassError(method, proxyResponse) ==
    IF "result" \in DOMAIN proxyResponse /\ Truthy(proxyResponse.result)
    THEN [returned |-> proxyResponse.result, defaulted |-> FALSE]
    ELSE [returned |-> proxyResponse, defaulted |-> FALSE]

registeredHandlerResult(method, proxyResponse) ==
    IF "result" \in DOMAIN proxyResponse /\ Truthy(proxyResponse.result)
    THEN [returned |-> proxyResponse.result, defaulted |-> FALSE]
    ELSE [returned |-> DefaultResult(method), defaulted |-> TRUE]

\* the registered handler resumes after `await proxy.handleRequest(...)`
RegisteredHandlerReturn ==
    /\ done.pc = "done"
    /\ done.op = "handleRequest"
    /\ done' = [pc |-> "replied", msg |-> done.msg, proxyResponse |-> done.ret,
                reply |-> registeredHandlerResult(done.msg.method, done.ret)]
    /\ UNCHANGED <<targetUrl, sessionId, tokenCache, now, calls, upstream>>

\* the server sends what the handler returned
ServerSend ==
    /\ done.pc = "replied"
    /\ done' = NoDone
    /\ UNCHANGED <<targetUrl, sessionId, tokenCache, now, calls, upstream>>

NextServer ==
    \/ HandleRequestAlone
    \/ GetClientDone
    \/ FetchPlain
    \/ HttpDone
    \/ RegisteredHandlerReturn
    \/ ServerSend

SpecServer == Init /\ [][NextServer]_vars

\* extractTokenExpiration applied to a token string at a time of the clock.
\* payload of the second segment after base64 and JSON decoding:
\*   "exp" an object with a numeric exp, "noexp" an object without exp,
\*   "strexp" an object whose exp is a string, "null" the JSON value null,
\*   "garbage" not JSON, "empty" the segment is empty
ExpClaims == {0, 1, 3600, 7200}

ExpTokens ==
    {[parts |-> n, payload |-> pl, exp |-> e]
       : n \in 1 .. 4, pl \in {"exp", "noexp", "strexp", "null", "garbage", "empty"},
         e \in ExpClaims}

ExpInputs ==
    {[pc |-> "token", token |-> tk, t |-> k * TickMs] : tk \in ExpTokens, k \in 0 .. MaxTicks}

InitExp ==
    /\ targetUrl = "https://example.com"
    /\ sessionId = Null
    /\ tokenCache = EmptyCache
    /\ now = 0
    /\ calls = EmptyBag
    /\ done \in ExpInputs
    /\ upstream = [kind |-> "none", sid |-> Null]

ExtractTokenExpiration ==
    /\ done.pc = "token"
    /\ done' = [pc |-> "decoded", token |-> done.token, t |-> done.t,
                expiresAt |-> extractTokenExpiration(done.token, done.t)]
    /\ UNCHANGED <<targetUrl, sessionId, tokenCache, now, calls, upstream>>

NextExp == ExtractTokenExpiration

SpecExp == InitExp /\ [][NextExp]_vars

TypeOK ==
    /\ sessionId \in SessionIds \cup {Null, ""}
    /\ BagCardinality(calls) <= MaxCalls
    /\ \A r \in InFlight : r.pc \in {"getClient", "fetchIdToken", "http"}
    /\ done.pc \in {"none", "done"}

\* ------------------------------------------------------------------ claims
Returned == done.pc = "done"

IsRequestCall(r) == IsHandler(r) /\ isJSONRPCRequest(r.msg)

IsNotificationCall(r) == r.op = "handleMessage" /\ isJSONRPCNotification(r.msg)

IsResponse(m) ==
    /\ "jsonrpc" \in DOMAIN m
    /\ "id" \in DOMAIN m
    /\ "result" \in DOMAIN m \/ "error" \in DOMAIN m

IsErrorResponseFor(m, id) ==
    /\ IsResponse(m)
    /\ m.jsonrpc = "2.0"
    /\ m.id = id
    /\ "error" \in DOMAIN m
    /\ ~("result" \in DOMAIN m)
    /\ {"code", "message"} \subseteq DOMAIN m.error
    /\ DOMAIN m.error \subseteq {"code", "message", "data"}

\* C1: when getIdToken returns an error result to handleRequest, the
\* invocation makes no post and returns an error response with the request's
\* id, code -32603 and a message starting with "Authentication failed: ".
C1_AuthShortCircuit ==
    (Returned /\ IsRequestCall(done) /\ done.authRes.type = "error") =>
        /\ done.n.post = 0
        /\ done.sent = NoPost
        /\ done.httpRes = Pending
        /\ IsErrorResponseFor(done.ret, done.msg.id)
        /\ done.ret.error.code = -32603
        /\ StartsWith(done.ret.error.message, "Authentication failed: ")

C1_Witness ==
    /\ Returned /\ IsRequestCall(done)
    /\ done.authRes.type = "error"
    /\ done.authRes.error.kind = "no-credentials"
    /\ done.msg.id = 2

\* C2: handleRequest returns a JSON-RPC response for every token outcome and
\* every transport outcome, and when the token or the transport failed (an
\* error result or an exception) the response is an error object
\* {code, message, data?} with the request's id.
TokenOrTransportFailed(r) ==
    \/ r.authRes.type \in {"error", "thrown"}
    \/ r.httpRes.type \in {"error", "thrown"}

C2_NeverThrows ==
    (Returned /\ IsRequestCall(done)) =>
        /\ IsResponse(done.ret)
        /\ TokenOrTransportFailed(done) => IsErrorResponseFor(done.ret, done.msg.id)

C2_Witness ==
    /\ Returned /\ IsRequestCall(done)
    /\ done.authRes.type = "success"
    /\ done.httpRes.type = "thrown"

\* C3: handleMessage returns a notification unchanged whatever the token
\* fetch and the transport did.
C3_NotificationResilience ==
    (Returned /\ IsNotificationCall(done)) => done.ret = done.msg

C3_Witness ==
    /\ Returned /\ IsNotificationCall(done)
    /\ done.httpRes.type = "error"
    /\ done.httpRes.error.kind = "network-error"

AllCalls == InFlight \cup (IF Returned THEN {done} ELSE {})

IsHandshake(r) == IsRequestCall(r) /\ r.msg.method = "initialize"

SessionHeaderOf(hs) == Get(hs, "Mcp-Session-Id")

Got404(r) ==
    /\ r.httpRes.type = "error"
    /\ r.httpRes.error.kind = "http-error"
    /\ r.httpRes.error.status = 404

\* C4: a non-handshake request started when the upstream's last word on the
\* session is an initialize response that carried the id S has the session
\* header S, in the headers it builds and in the post it makes; an initialize
\* response that carries no session id leaves the stored session as it was.
C4_SessionPropagation ==
    /\ \A r \in AllCalls :
          (IsRequestCall(r) /\ ~IsHandshake(r) /\ r.sig.kind = "issued") =>
              /\ SessionHeaderOf(r.headers) = r.sig.sid
              /\ r.sent # NoPost => SessionHeaderOf(r.sent.headers) = r.sig.sid
    /\ (Returned /\ IsHandshake(done) /\ done.httpRes.type = "success"
          /\ CarriedIds(done.httpRes.headers) = {}) => sessionId = done.before

C4_Witness ==
    \E r \in InFlight :
        /\ IsRequestCall(r) /\ ~IsHandshake(r)
        /\ r.sig = [kind |-> "issued", sid |-> "s2"]
        /\ r.pc = "http"
        /\ SessionHeaderOf(r.sent.headers) = "s2"

\* C5: when the transport answers a request or a notification with HTTP 404
\* the session is cleared by the time the invocation returns, a request
\* still gets an error response with code -32601, and an invocation started
\* while the upstream's last word is that 404 carries no session header.
C5_SessionInvalidation ==
    /\ (Returned /\ IsHandler(done) /\ Got404(done)) =>
          /\ sessionId = Null
          /\ isJSONRPCRequest(done.msg) =>
                /\ IsErrorResponseFor(done.ret, done.msg.id)
                /\ done.ret.error.code = -32601
    /\ \A r \in AllCalls :
          (IsHandler(r) /\ r.sig.kind = "gone") =>
              /\ "Mcp-Session-Id" \notin DOMAIN r.headers
              /\ r.sent # NoPost => "Mcp-Session-Id" \notin DOMAIN r.sent.headers

C5_Witness ==
    /\ Returned /\ IsRequestCall(done) /\ Got404(done)
    /\ done.before \in SessionIds
    /\ sessionId = Null

\* C6: a successful transport response to anything but an initialize request
\* leaves the stored session as it was, whatever headers it carries.
C6_OnlyHandshakeSetsSession ==
    (Returned /\ IsHandler(done) /\ done.httpRes.type = "success" /\ ~IsHandshake(done))
        => sessionId = done.before

C6_Witness ==
    /\ Returned /\ IsHandler(done) /\ ~IsHandshake(done)
    /\ done.httpRes.type = "success"
    /\ CarriedIds(done.httpRes.headers) = {"s1"}
    /\ done.before # "s1"

\* C7: the stored session changes only in a step in which an invocation
\* returns, and then only to the id carried by a transport-successful
\* initialize response or to none on an HTTP 404; every other outcome (auth
\* failure, other HTTP status, network, timeout, parse, exception, invalid
\* body) leaves it as it was.
SetCause(r) ==
    IsHandshake(r) /\ r.httpRes.type = "success" /\ CarriedIds(r.httpRes.headers) # {}

C7_WriterInv ==
    Returned =>
        \/ sessionId = done.before
        \/ SetCause(done) /\ sessionId \in CarriedIds(done.httpRes.headers)
        \/ IsHandler(done) /\ Got404(done) /\ sessionId = Null

C7_WriterStep == sessionId' # sessionId => (done = NoDone /\ done' # NoDone)

HttpsAudienceSamples == {"https://example.com", "HTTPS://EXAMPLE.COM/api"}

OtherAudienceSamples == {"http://example.com", "ftp://example.com", "not-a-url"}

FiveMinutes == 5 * 60 * 1000

\* C8: a getIdToken call on an https audience returns without suspending
\* exactly when the cache holds an entry for the audience with
\* expiresAt - now > 5 minutes; it then returns that entry's token and expiry,
\* calls the provider not at all and leaves the cache alone.  Otherwise (no
\* entry, or 5 minutes or less left) it enters fetchNewToken, which calls
\* getClient once and fetchIdToken at most once.
C8_Step ==
    \A a \in HttpsAudienceSamples :
        LET fresh == /\ a \in DOMAIN tokenCache
                     /\ tokenCache[a].expiresAt - now > FiveMinutes
        IN  /\ (done = NoDone /\ done' # NoDone /\ calls' = calls
                  /\ done'.op = "getIdToken" /\ done'.aud = a) =>
                   /\ fresh
                   /\ done'.ret = [type |-> "success",
                                   token |-> tokenCache[a].token,
                                   expiresAt |-> tokenCache[a].expiresAt]
                   /\ done'.n.getClient = 0
                   /\ done'.n.fetchIdToken = 0
                   /\ tokenCache' = tokenCache
            /\ \A r \in BagToSet(calls') :
                   (done = NoDone /\ calls' = Add(calls, r)
                      /\ r.op = "getIdToken" /\ r.aud = a) =>
                       /\ ~fresh
                       /\ r.pc = "getClient"
                       /\ r.n.getClient = 1

C8_Counts ==
    \A r \in AllCalls :
        r.op = "getIdToken" =>
            /\ r.n.getClient <= 1
            /\ r.n.fetchIdToken <= r.n.getClient
            /\ r.pc \in {"getClient", "fetchIdToken"} => r.n.getClient = 1
            /\ r.fetched # Pending => r.n.getClient = 1

C8_TokenReuse == [][C8_Step]_vars /\ []C8_Counts

C8_Witness ==
    /\ Returned /\ done.op = "getIdToken"
    /\ done.ret.type = "success"
    /\ done.n.getClient = 0
    /\ now > 0

\* C9: getIdToken on an audience that is not an absolute https URL returns an
\* invalid-audience error at once, without a provider call and with the token
\* cache unchanged.
C9_Inv ==
    /\ (Returned /\ done.op = "getIdToken" /\ done.aud \in OtherAudienceSamples) =>
          /\ done.ret.type = "error"
          /\ done.ret.error.kind = "invalid-audience"
          /\ done.n.getClient = 0
          /\ done.n.fetchIdToken = 0
    /\ \A r \in InFlight : r.op = "getIdToken" => r.aud \notin OtherAudienceSamples

C9_Step ==
    (done = NoDone /\ done' # NoDone
       /\ done'.op = "getIdToken" /\ done'.aud \in OtherAudienceSamples)
        => tokenCache' = tokenCache

C9_AudienceValidation == []C9_Inv /\ [][C9_Step]_vars

C9_Witness ==
    /\ Returned /\ done.op = "getIdToken"
    /\ done.aud = "http://example.com"
    /\ tokenCache # EmptyCache

\* C10 (as stated): when the provider call throws or returns an unusable
\* value (empty or not a string), getIdToken returns token-fetch-failed.
ProviderThrew(r) == "kind" \in DOMAIN r.fetched /\ r.fetched.kind = "throw"

ProviderUnusable(r) ==
    /\ "kind" \in DOMAIN r.fetched
    /\ r.fetched.kind = "value"
    /\ r.fetched.value.jstype # "string" \/ ~r.fetched.value.truthy

C10_AsStated ==
    (Returned /\ ~IsHandler(done) /\ (ProviderThrew(done) \/ ProviderUnusable(done))) =>
        /\ done.ret.type = "error"
        /\ done.ret.error.kind = "token-fetch-failed"

\* C10 (amended): when the provider call throws, getIdToken returns
\* token-fetch-failed; when fetchIdToken returns an unusable value (empty or
\* not a string), it returns invalid-token.
C10_FetchFailureKinds ==
    /\ (Returned /\ ~IsHandler(done) /\ ProviderThrew(done)) =>
          /\ done.ret.type = "error"
          /\ done.ret.error.kind = "token-fetch-failed"
          /\ StartsWith(done.ret.error.message, "Failed to fetch ID token: ")
    /\ (Returned /\ ~IsHandler(done) /\ ProviderUnusable(done)) =>
          /\ done.ret.type = "error"
          /\ done.ret.error.kind = "invalid-token"

C10_Witness ==
    /\ Returned /\ done.op = "getIdToken"
    /\ ProviderUnusable(done)
    /\ done.fetched.value = [jstype |-> "string", truthy |-> FALSE]

\* C11: a getIdToken call that entered fetchNewToken (cache miss or entry with
\* 5 minutes or less left) returns a no-credentials error when getClient()
\* yields no client and when the client has no fetchIdToken, the two
\* messages differ, fetchIdToken is not called and the cache is not written.
NoClient(r) == "kind" \in DOMAIN r.fetched /\ r.fetched.kind = "null"

NoCapability(r) ==
    /\ "kind" \in DOMAIN r.fetched
    /\ r.fetched.kind = "client"
    /\ ~r.fetched.hasFetchIdToken

C11_Inv ==
    /\ (Returned /\ done.op = "getIdToken" /\ NoClient(done)) =>
          /\ done.ret.type = "error"
          /\ done.ret.error.kind = "no-credentials"
          /\ done.ret.error.message = NoCredentialsMessage
          /\ done.n.fetchIdToken = 0
    /\ (Returned /\ done.op = "getIdToken" /\ NoCapability(done)) =>
          /\ done.ret.type = "error"
          /\ done.ret.error.kind = "no-credentials"
          /\ done.ret.error.message = NoIdTokenSupportMessage
          /\ done.ret.error.message # NoCredentialsMessage
          /\ done.n.fetchIdToken = 0

C11_Step ==
    (done = NoDone /\ done' # NoDone /\ done'.op = "getIdToken"
       /\ (NoClient(done') \/ NoCapability(done')))
        => tokenCache' = tokenCache

C11_NoCredentials == []C11_Inv /\ [][C11_Step]_vars

C11_Witness ==
    /\ Returned /\ done.op = "getIdToken"
    /\ NoCapability(done)
    /\ HasEntry(tokenCache, done.aud)
    /\ tokenCache[done.aud].expiresAt - now = FiveMinutes

\* C12: the step that calls refreshToken(audience) leaves no cache entry for
\* the audience; for an https audience the call enters fetchNewToken (one
\* getClient call) even when the evicted entry had more than 5 minutes left;
\* when it returns success the returned token and expiry are those of the
\* value fetchIdToken delivered and the cache entry holds the same.
C12_Step ==
    /\ (done = NoDone /\ done' # NoDone /\ calls' = calls /\ done'.op = "refreshToken")
          => ~HasEntry(tokenCache', done'.aud)
    /\ \A r \in BagToSet(calls') :
          (done = NoDone /\ calls' = Add(calls, r) /\ r.op = "refreshToken")
              => ~HasEntry(tokenCache', r.aud)

C12_Inv ==
    /\ \A r \in AllCalls :
          (r.op = "refreshToken" /\ r.aud \in HttpsAudienceSamples) => r.n.getClient = 1
    /\ (Returned /\ done.op = "refreshToken" /\ done.ret.type = "success") =>
          /\ done.fetched.kind = "value"
          /\ done.ret.token = done.fetched.value
          /\ HasEntry(tokenCache, done.aud)
          /\ tokenCache[done.aud] = [token |-> done.fetched.value,
                                     expiresAt |-> done.ret.expiresAt]

C12_RefreshEvicts == []C12_Inv /\ [][C12_Step]_vars

C12_Witness ==
    /\ Returned /\ done.op = "refreshToken"
    /\ done.ret.type = "success"
    /\ done.evictedFresh
    /\ done.ret.token.name = "B"

Mapped == done.pc = "mapped"

C14_StatusMapping ==
    (Mapped /\ done.error.kind = "http-error") =>
        LET s == done.error.status
            code == done.ret.error.code
        IN  /\ IsErrorResponseFor(done.ret, done.id)
            /\ s \in {401, 403} => code = -32002
            /\ s = 404 => code = -32601
            /\ (s \in 400 .. 499 /\ s \notin {401, 403, 404}) => code = -32602
            /\ s \in 500 .. 599 => code = -32603
            /\ StartsWith(done.ret.error.message, "HTTP error: ")

C14_Witness ==
    /\ Mapped
    /\ done.error.kind = "http-error"
    /\ done.error.status = 404
    /\ done.ret.error.code = -32601

\* C15: the error response of a request has code -32603 and a message
\* starting "Network error: " for a network error, -32603 and
\* "Request timeout: " for a timeout, -32700 and "Parse error: " for a parse
\* error, -32603 and "Authentication failed: " for an auth error of any kind,
\* and -32603 and "Internal error: " for an exception.
HttpFailed(r, kind) == r.httpRes.type = "error" /\ r.httpRes.error.kind = kind

CodeAndPrefix(m, code, prefix) ==
    /\ "error" \in DOMAIN m
    /\ m.error.code = code
    /\ StartsWith(m.error.message, prefix)

AuthErrorKinds == {"no-credentials", "invalid-audience", "token-fetch-failed", "invalid-token"}

C15_KindMapping ==
    (Returned /\ IsRequestCall(done)) =>
        /\ HttpFailed(done, "network-error") =>
               CodeAndPrefix(done.ret, -32603, "Network error: ")
        /\ HttpFailed(done, "timeout") =>
               CodeAndPrefix(done.ret, -32603, "Request timeout: ")
        /\ HttpFailed(done, "parse-error") =>
               CodeAndPrefix(done.ret, -32700, "Parse error: ")
        /\ done.authRes.type = "error" =>
               /\ done.authRes.error.kind \in AuthErrorKinds
               /\ CodeAndPrefix(done.ret, -32603, "Authentication failed: ")
        /\ (done.authRes.type = "thrown" \/ done.httpRes.type = "thrown") =>
               CodeAndPrefix(done.ret, -32603, "Internal error: ")

C15_Witness ==
    /\ Returned /\ IsRequestCall(done)
    /\ HttpFailed(done, "parse-error")
    /\ done.ret.error.code = -32700

\* C16 (as stated): every error response handleRequest produces has a data
\* field with the kind of the original error and, for an http-error, its
\* status and body.
InvalidBody(r) == r.httpRes.type = "success" /\ ~isValidJSONRPCResponse(r.httpRes.data)

Threw(r) == r.authRes.type = "thrown" \/ r.httpRes.type = "thrown"

ThrownValue(r) == IF r.authRes.type = "thrown" THEN r.authRes.error ELSE r.httpRes.error

ProducedError(r) == TokenOrTransportFailed(r) \/ InvalidBody(r)

HasData(m) == "error" \in DOMAIN m /\ "data" \in DOMAIN m.error

CarriesKind(m, kind) ==
    /\ HasData(m)
    /\ "kind" \in DOMAIN m.error.data
    /\ m.error.data.kind = kind

CarriesStatusAndBody(m, e) ==
    /\ HasData(m)
    /\ {"status", "body"} \subseteq DOMAIN m.error.data
    /\ m.error.data.status = e.status
    /\ m.error.data.body = e.body

KindInData(r) ==
    /\ r.authRes.type = "error" => CarriesKind(r.ret, r.authRes.error.kind)
    /\ r.httpRes.type = "error" =>
          /\ CarriesKind(r.ret, r.httpRes.error.kind)
          /\ r.httpRes.error.kind = "http-error" =>
                CarriesStatusAndBody(r.ret, r.httpRes.error)

C16_AsStated ==
    (Returned /\ IsRequestCall(done) /\ ProducedError(done)) =>
        /\ KindInData(done)
        /\ HasData(done.ret) /\ "kind" \in DOMAIN done.ret.error.data

\* C16 (amended): the error response for an auth error or a transport error
\* has a data field with the kind of that error and, for an http-error, its
\* status and body; the response for an invalid body has data {received:
\* body}; the response for an exception has the thrown value as data, and no
\* data field when that value is falsy.
C16_ErrorData ==
    (Returned /\ IsRequestCall(done) /\ ProducedError(done)) =>
        /\ KindInData(done)
        /\ InvalidBody(done) =>
              (HasData(done.ret) /\ done.ret.error.data = [received |-> done.httpRes.data])
        /\ Threw(done) =>
              IF JsTruthy(ThrownValue(done))
              THEN HasData(done.ret) /\ done.ret.error.data = ThrownValue(done)
              ELSE ~HasData(done.ret)

C16_Witness ==
    /\ Returned /\ IsRequestCall(done)
    /\ HttpFailed(done, "http-error")
    /\ done.httpRes.error.status = 500
    /\ done.ret.error.data = [kind |-> "http-error", status |-> 500, body |-> "body"]

\* C17: what a handler returns after it obtained a token is determined by the
\* inbound message and the transport's outcome alone (it is the same when
\* the token, the built headers and the post's config are erased from the
\* invocation), and the token is sent in the Authorization header only: the
\* url, the body and the other headers of the post do not hold it.
Erased(r) ==
    [r EXCEPT !.authRes = [type |-> "success"], !.headers = EmptyHeaders, !.sent = NoPost]

TokenFreeHeaderValues ==
    {"application/json", "application/json, text/event-stream"} \cup SessionIds

C17_NoTokenLeak ==
    (Returned /\ IsHandler(done) /\ done.authRes.type = "success") =>
        /\ done.ret = returnAfterHttp(Erased(done), done.httpRes)
        /\ done.sent.headers["Authorization"] = <<"Bearer ", done.authRes.token>>
        /\ done.sent.url = targetUrl
        /\ done.sent.body = done.msg
        /\ \A k \in DOMAIN done.sent.headers \ {"Authorization"} :
               done.sent.headers[k] \in TokenFreeHeaderValues

C17_Witness ==
    /\ Returned /\ IsRequestCall(done)
    /\ done.authRes.type = "success"
    /\ done.httpRes.type = "thrown"
    /\ done.httpRes.error.isError
    /\ done.ret.error.data = done.httpRes.error

\* C18: when the transport succeeds with a body that is a JSON-RPC 2.0
\* response (jsonrpc "2.0", an id, and a result or an error member), the
\* request's invocation returns that body itself; an error member comes back
\* with the upstream's code and message.
IsJsonRpc2Response(m) == IsResponse(m) /\ m.jsonrpc = "2.0"

C18_PassThrough ==
    (Returned /\ IsRequestCall(done) /\ done.httpRes.type = "success"
       /\ IsJsonRpc2Response(done.httpRes.data)) =>
        /\ done.ret = done.httpRes.data
        /\ "error" \in DOMAIN done.httpRes.data =>
               /\ done.ret.error.code = done.httpRes.data.error.code
               /\ done.ret.error.message = done.httpRes.data.error.message

C18_Witness ==
    /\ Returned /\ IsRequestCall(done)
    /\ done.httpRes.type = "success"
    /\ IsJsonRpc2Response(done.httpRes.data)
    /\ "error" \in DOMAIN done.httpRes.data
    /\ done.ret.error.code = -32000

\* C19 (as stated): every response a request's invocation returns has the
\* request's id, and a transport-successful body whose id differs from the
\* request's is answered with an error response instead of being returned.
IdDiffers(r) ==
    /\ r.httpRes.type = "success"
    /\ IsObject(r.httpRes.data)
    /\ "id" \in DOMAIN r.httpRes.data
    /\ r.httpRes.data.id # r.msg.id

C19_ResponseIdMatches ==
    (Returned /\ IsRequestCall(done)) =>
        /\ done.ret.id = done.msg.id
        /\ IdDiffers(done) =>
               /\ done.ret # done.httpRes.data
               /\ IsErrorResponseFor(done.ret, done.msg.id)

\* the failing case: the body of another id comes back as the response
C19_Witness ==
    /\ Returned /\ done.op = "handleRequest"
    /\ done.msg = [jsonrpc |-> "2.0", id |-> 2, method |-> "tools/list"]
    /\ done.httpRes.type = "success"
    /\ done.ret = [jsonrpc |-> "2.0", id |-> 1, result |-> "ok"]

\* C20: when the transport succeeds with a body that is not an object, or
\* whose jsonrpc member is not "2.0", or that has no id member, or that has
\* neither a result nor an error member, the request's invocation returns the
\* error response with the request's id, code -32603, the message
\* "Invalid response format from target server" and the body in data.
NotAnObject(b) == "jstype" \in DOMAIN b

BadShape(b) ==
    \/ NotAnObject(b)
    \/ "jsonrpc" \notin DOMAIN b
    \/ b.jsonrpc # "2.0"
    \/ "id" \notin DOMAIN b
    \/ ("result" \notin DOMAIN b /\ "error" \notin DOMAIN b)

C20_ShapeValidation ==
    (Returned /\ IsRequestCall(done) /\ done.httpRes.type = "success"
       /\ BadShape(done.httpRes.data)) =>
        /\ IsErrorResponseFor(done.ret, done.msg.id)
        /\ done.ret.error.code = -32603
        /\ done.ret.error.message = <<"Invalid response format from target server">>
        /\ HasData(done.ret)
        /\ done.ret.error.data.received = done.httpRes.data

C20_Witness ==
    /\ Returned /\ IsRequestCall(done)
    /\ done.msg.id = 2
    /\ done.httpRes.type = "success"
    /\ done.httpRes.data = [jsonrpc |-> "2.0", result |-> "ok"]
    /\ done.ret.error.code = -32603

\* C21: handleMessage returns for a message with method and id what
\* handleRequest returns for it; a message with method and no id takes the
\* notification path (one getIdToken, the message as the post's body, the
\* message returned); any other message is returned as it is in the calling
\* step, with no getIdToken, no post and the session and the token cache
\* unchanged.
IsOtherCall(r) ==
    r.op = "handleMessage" /\ ~isJSONRPCRequest(r.msg) /\ ~isJSONRPCNotification(r.msg)

AsHandleRequest(r) == [r EXCEPT !.op = "handleRequest"]

C21_Inv ==
    /\ (Returned /\ done.op = "handleMessage" /\ isJSONRPCRequest(done.msg)) =>
          /\ done.n.getIdToken = 1
          /\ done.httpRes # Pending =>
                done.ret = returnAfterHttp(AsHandleRequest(done), done.httpRes)
          /\ done.httpRes = Pending =>
                done.ret = afterToken(AsHandleRequest(done), done.authRes).ret
    /\ (Returned /\ IsNotificationCall(done)) =>
          /\ done.ret = done.msg
          /\ done.n.getIdToken = 1
          /\ done.sent # NoPost => done.sent.body = done.msg
    /\ (Returned /\ IsOtherCall(done)) =>
          /\ done.ret = done.msg
          /\ done.n = NoCounts
          /\ done.sent = NoPost
          /\ done.authRes = Pending
          /\ done.httpRes = Pending
          /\ sessionId = done.before
    /\ \A r \in InFlight : ~IsOtherCall(r)

C21_Step ==
    (done = NoDone /\ done' # NoDone /\ IsOtherCall(done')) =>
        /\ sessionId' = sessionId
        /\ tokenCache' = tokenCache
        /\ calls' = calls

C21_Dispatch == []C21_Inv /\ [][C21_Step]_vars

C21_Witness ==
    /\ Returned /\ IsOtherCall(done)
    /\ done.ret = [jsonrpc |-> "2.0", id |-> 1, result |-> "ok"]
    /\ sessionId \in SessionIds
    /\ tokenCache # EmptyCache

\* C22: every post a handler makes, for a request or a notification, has the
\* Authorization header "Bearer " followed by the token getIdToken returned
\* to that invocation for the target URL, the Content-Type and Accept
\* headers, and the session header exactly when the session manager held an
\* id when the invocation read it, with that id as its value.
Posted(r) == IsHandler(r) /\ r.sent # NoPost

C22_OutboundHeaders ==
    \A r \in AllCalls :
        Posted(r) =>
            /\ r.authRes.type = "success"
            /\ r.aud = targetUrl
            /\ r.sent.url = targetUrl
            /\ Get(r.sent.headers, "Authorization") = <<"Bearer ", r.authRes.token>>
            /\ Get(r.sent.headers, "Content-Type") = "application/json"
            /\ Get(r.sent.headers, "Accept") = "application/json, text/event-stream"
            /\ ("Mcp-Session-Id" \in DOMAIN r.sent.headers) <=> (r.read \in SessionIds)
            /\ r.read \in SessionIds => r.sent.headers["Mcp-Session-Id"] = r.read
            /\ DOMAIN r.sent.headers \subseteq
                   {"Authorization", "Content-Type", "Accept", "Mcp-Session-Id"}

C22_Witness ==
    \E r \in InFlight :
        /\ IsNotificationCall(r)
        /\ r.pc = "http"
        /\ r.read = "s1"
        /\ r.sent.headers["Mcp-Session-Id"] = "s1"
        /\ r.sent.headers["Authorization"] = <<"Bearer ", r.authRes.token>>

\* C23 (as stated): an invocation suspended at the token fetch and an
\* invocation suspended at the post both return eventually, whether or not
\* the credential provider or the upstream ever answers.
AtTokenFetch == \E r \in InFlight : IsHandler(r) /\ r.pc \in {"getClient", "fetchIdToken"}

AtPost == \E r \in InFlight : IsHandler(r) /\ r.pc = "http"

C23_TimeoutsHonored == (AtTokenFetch ~> Returned) /\ (AtPost ~> Returned)

\* the failing case: a request waits for fetchIdToken
C23_Witness ==
    \E r \in InFlight : IsRequestCall(r) /\ r.pc = "fetchIdToken" /\ r.n.post = 0

\* C24: getIdToken calls for one audience that overlap on a missing or
\* near-expiry entry each run their own provider fetch; a call whose fetch
\* succeeded returns the token of its own fetch, and in the state in which it
\* returns the cache entry of the audience is that token with its expiry,
\* whatever an overlapping call wrote before: the fetch that completes last
\* leaves its token in the cache.
Fetching(r) == r.op = "getIdToken" /\ r.pc \in {"getClient", "fetchIdToken"}

OwnFetchSucceeded(r) ==
    /\ r.op = "getIdToken"
    /\ r.n.fetchIdToken = 1
    /\ r.ret.type = "success"

C24_ConcurrentMisses ==
    /\ \A r \in InFlight : Fetching(r) => r.n.getClient = 1
    /\ (Returned /\ OwnFetchSucceeded(done)) =>
          /\ done.fetched.kind = "value"
          /\ done.ret.token = done.fetched.value
          /\ done.ret.expiresAt = extractTokenExpiration(done.fetched.value, now)
          /\ HasEntry(tokenCache, done.aud)
          /\ tokenCache[done.aud] = [token |-> done.ret.token,
                                     expiresAt |-> done.ret.expiresAt]

C24_Witness ==
    /\ Returned /\ OwnFetchSucceeded(done)
    /\ done.ret.token.name = "B"
    /\ \E r \in InFlight : Fetching(r) /\ r.aud = done.aud /\ r.pc = "fetchIdToken"

\* C25: every cache entry is the token and the expiry of one successful
\* fetch for its audience; an entry appears or changes only in the step in
\* which a successful fetch for the audience returns, and is then that
\* fetch's token and expiry together; it disappears only in the step that
\* calls refreshToken for the audience; a step of the clock leaves the cache
\* as it is.
FetchTimes == {k * TickMs : k \in 0 .. MaxTicks}

WrittenByOneFetch(e) ==
    /\ e.token.jstype = "string"
    /\ e.token.truthy
    /\ \E t \in FetchTimes : t <= now /\ e.expiresAt = extractTokenExpiration(e.token, t)

C25_Inv ==
    \A a \in DOMAIN tokenCache :
        /\ a \in HttpsAudienceSamples
        /\ DOMAIN tokenCache[a] = {"token", "expiresAt"}
        /\ WrittenByOneFetch(tokenCache[a])

FetchReturned(r, a) ==
    /\ r # NoDone
    /\ r.aud = a
    /\ r.n.fetchIdToken = 1
    /\ r.ret.type = "success"

C25_Step ==
    /\ \A a \in DOMAIN tokenCache' :
          (a \notin DOMAIN tokenCache \/ tokenCache'[a] # tokenCache[a]) =>
              /\ done = NoDone
              /\ FetchReturned(done', a)
              /\ tokenCache'[a] = [token |-> done'.ret.token,
                                   expiresAt |-> done'.ret.expiresAt]
    /\ \A a \in DOMAIN tokenCache \ DOMAIN tokenCache' :
          \E r \in BagToSet(calls') :
              calls' = Add(calls, r) /\ r.op = "refreshToken" /\ r.aud = a
    /\ now' # now => tokenCache' = tokenCache

C25_CacheIntegrity == []C25_Inv /\ [][C25_Step]_vars

C25_Witness ==
    \E a \in DOMAIN tokenCache :
        /\ tokenCache[a].expiresAt < now
        /\ calls = EmptyBag
        /\ done = NoDone

\* C26: getSessionId returns null on a new manager; after setSessionId(x) it
\* returns x, for the empty string too, and the latest setSessionId counts;
\* after clearSession it returns null, also when clearSession is repeated.
\* Stated over the log: each getSessionId returns the argument of the
\* latest setSessionId before it that no clearSession followed, null if
\* there is none, and the slot holds the same for the whole log.
Writes(log, n) == {i \in 1 .. n : log[i].op \in {"setSessionId", "clearSession"}}

Expected(log, n) ==
    IF Writes(log, n) = {} THEN Null
    ELSE LET last == CHOOSE i \in Writes(log, n) : \A j \in Writes(log, n) : j <= i
         IN  IF log[last].op = "setSessionId" THEN log[last].arg ELSE Null

C26_SessionContract ==
    done.pc = "session" =>
        /\ \A i \in 1 .. Len(done.log) :
               done.log[i].op = "getSessionId" =>
                   done.log[i].ret = Expected(done.log, i - 1)
        /\ sessionId = Expected(done.log, Len(done.log))

C26_Witness ==
    /\ done.pc = "session"
    /\ Len(done.log) = 3
    /\ done.log[1] = [op |-> "setSessionId", arg |-> "s1", ret |-> Null]
    /\ done.log[2] = [op |-> "setSessionId", arg |-> "", ret |-> Null]
    /\ done.log[3] = [op |-> "getSessionId", arg |-> Null, ret |-> ""]

\* C27: under every interleaving, the slot holds the id of the latest set
\* (an initialize response that carried an id) unless a clear (an HTTP 404)
\* came after it, and none otherwise; what an invocation reads from the
\* slot is that value as of its start, and the session header it builds and
\* sends is the value it read, absent when it read none.
LatestWrite(u) == IF u.kind = "issued" THEN u.sid ELSE Null

ReadsSession(r) == IsHandler(r) /\ ~IsOtherCall(r)

C27_SessionLinearizable ==
    /\ sessionId = LatestWrite(upstream)
    /\ sessionId \in SessionIds \cup {Null}
    /\ \A r \in AllCalls :
          ReadsSession(r) =>
              /\ r.read = LatestWrite(r.sig)
              /\ r.read \in SessionIds \cup {Null}
              /\ SessionHeaderOf(r.headers) = r.read
              /\ r.sent # NoPost => SessionHeaderOf(r.sent.headers) = r.read

C27_Witness ==
    \E r1, r2 \in InFlight :
        /\ ReadsSession(r1) /\ ReadsSession(r2)
        /\ r1.read = "s1" /\ r2.read = "s2"
        /\ r1.pc = "http" /\ r2.pc = "http"
        /\ sessionId = "s2"

\* C28 (as stated): once an HTTP 404 has invalidated the session, no request
\* other than initialize is forwarded upstream until an initialize exchange
\* has established a session again.
C28_ReHandshake ==
    \A r \in AllCalls :
        (IsRequestCall(r) /\ ~IsHandshake(r) /\ r.sig.kind = "gone") => r.sent = NoPost

\* the failing case: tools/list is posted, without a session header, while
\* the upstream's last word on the session is the 404
C28_Witness ==
    \E r \in InFlight :
        /\ r.op = "handleRequest"
        /\ r.msg.method = "tools/list"
        /\ r.sig.kind = "gone"
        /\ r.pc = "http"
        /\ r.sent.body = r.msg
        /\ "Mcp-Session-Id" \notin DOMAIN r.sent.headers

\* C29 (as stated): with an http:// target URL a request or a notification
\* is forwarded upstream without authentication: getIdToken is not called,
\* the post has no Authorization header, and the invocation does not end in
\* an authentication error but with its one post made.
HttpTarget == URLProtocol(targetUrl) = "http:"

C29_HttpTargetNoAuth ==
    \A r \in AllCalls :
        (HttpTarget /\ ReadsSession(r)) =>
            /\ r.n.getIdToken = 0
            /\ r.n.getClient = 0
            /\ r.authRes.type # "error"
            /\ r.sent # NoPost => "Authorization" \notin DOMAIN r.sent.headers
            /\ r.pc = "done" => r.n.post = 1

\* the failing case: the request is answered with the invalid-audience
\* authentication error and nothing is posted
C29_Witness ==
    /\ HttpTarget
    /\ Returned /\ done.op = "handleRequest"
    /\ done.authRes.type = "error"
    /\ done.authRes.error.kind = "invalid-audience"
    /\ done.n.post = 0
    /\ StartsWith(done.ret.error.message, "Authentication failed: ")

\* C30: per-call ordering. An invocation moves only forward through
\* token resolution, HTTP dispatch and return: while the token is being
\* resolved nothing has been posted; the post is in flight only after a
\* successful token resolution; an invocation that returned either posted once
\* and holds the transport's result, or failed to resolve a token and posted
\* nothing. The session slot changes only in the step in which an invocation
\* takes the transport's result (cleared on a transport failure, set from a
\* handshake's success), and every invocation returns, once: when it has
\* returned nothing of it is left in flight.
Rank(pc) ==
    CASE pc = "start" -> 0
      [] pc = "getClient" -> 1
      [] pc = "fetchIdToken" -> 2
      [] pc = "http" -> 3
      [] pc = "done" -> 4

C30_Inv ==
    /\ \A r \in AllCalls :
           ReadsSession(r) =>
               /\ r.pc \in {"getClient", "fetchIdToken"} =>
                      /\ r.authRes = Pending /\ r.httpRes = Pending
                      /\ r.sent = NoPost /\ r.n.post = 0 /\ r.ret = Pending
               /\ r.pc = "http" =>
                      /\ r.authRes.type = "success" /\ r.httpRes = Pending
                      /\ r.sent # NoPost /\ r.n.post = 1 /\ r.ret = Pending
               /\ r.pc = "done" =>
                      /\ r.ret # Pending
                      /\ r.httpRes # Pending =>
                             r.authRes.type = "success" /\ r.sent # NoPost /\ r.n.post = 1
                      /\ r.httpRes = Pending =>
                             /\ r.authRes.type \in {"error", "thrown"}
                             /\ r.sent = NoPost /\ r.n.post = 0
    /\ Returned => calls = EmptyBag

C30_Step ==
    /\ sessionId' # sessionId =>
           /\ ~Returned /\ Returned'
           /\ ReadsSession(done') /\ done'.httpRes # Pending
           /\ done'.httpRes.type = "error" => sessionId' = Null
           /\ done'.httpRes.type = "success" =>
                  IsHandshake(done') /\ sessionId' \in CarriedIds(done'.httpRes.headers)
    /\ \A r \in InFlight :
           /\ \A r2 \in BagToSet(calls') : Rank(r2.pc) >= Rank(r.pc)
           /\ calls' = EmptyBag => Returned' /\ done'.msg = r.msg /\ done'.op = r.op

WireSessionIds(w) ==
    {w.headers[n] : n \in (DOMAIN w.headers) \cap WireSessionNames} \ {""}

C31_HeaderAnyCase ==
    (/\ Returned /\ IsHandshake(done)
     /\ done.wire.kind = "response"
     /\ done.httpRes.type = "success") =>
        \A sid \in WireSessionIds(done.wire) : sessionId = sid

\* the header arrived in capitals only
C31_Witness ==
    /\ Returned /\ IsHandshake(done)
    /\ done.wire.kind = "response"
    /\ done.httpRes.type = "success"
    /\ "MCP-SESSION-ID" \in DOMAIN done.wire.headers
    /\ done.before = Null
    /\ sessionId = "s1"

\* C32: the expiry decoded from a token with exactly three segments whose
\* second segment is JSON with a numeric exp is exp seconds after the epoch
\* (exp * 1000 ms); for every other token (another segment count, an empty or
\* undecodable second segment, no exp or an exp that is not a number) it is
\* the time of the fetch plus one hour.
Decoded == done.pc = "decoded"

HasNumericExp(token) == token.parts = 3 /\ token.payload = "exp"

C32_ExpiryDecoding ==
    Decoded =>
        /\ HasNumericExp(done.token) => done.expiresAt = done.token.exp * 1000
        /\ ~HasNumericExp(done.token) => done.expiresAt = done.t + 60 * 60 * 1000

\* a two-segment token whose second segment has a numeric exp gets the default
C32_Witness ==
    /\ Decoded
    /\ done.token.parts = 2 /\ done.token.payload = "exp" /\ done.token.exp = 7200
    /\ done.t = TickMs
    /\ done.expiresAt = TickMs + 3600000

\* C33 (as stated): post resolves to a success with data, status and headers
\* or to an error and never rejects; a status outside 200..299 gives
\* http-error with that status and the body, the timer's abort gives timeout,
\* another rejection of fetch gives network-error, and a 2xx response whose
\* body is empty or is not JSON gives parse-error.
ViaFetch == Returned /\ IsHandler(done) /\ done.wire # NoWire

Is2xx(w) == w.kind = "response" /\ w.status \in 200 .. 299

ErrorOfKind(res, kind) == res.type = "error" /\ res.error.kind = kind

C33_Common ==
    ViaFetch =>
        LET w == done.wire
            res == done.httpRes
        IN  /\ res.type \in {"success", "error"}
            /\ res.type = "success" =>
                   DOMAIN res = {"type", "data", "status", "headers"}
            /\ (w.kind = "response" /\ ~Is2xx(w)) =>
                   /\ ErrorOfKind(res, "http-error")
                   /\ res.error.status = w.status
                   /\ w.readable => res.error.body = w.text
            /\ w.kind = "abort" => ErrorOfKind(res, "timeout")
            /\ w.kind = "throw" => ErrorOfKind(res, "network-error")

C33_AsStated ==
    /\ C33_Common
    /\ (ViaFetch /\ Is2xx(done.wire) /\ done.wire.readable
          /\ ~JsonParses(done.wire.text)) =>
           ErrorOfKind(done.httpRes, "parse-error")

\* C33 (amended): as stated, except that a 2xx body framed as a server-sent
\* event ("event: message" followed by a "data: " line) is a success whose
\* data is the JSON of the data line, and a parse-error only when that line is
\* missing or is not JSON; a 2xx body that is JSON is a success with the
\* parsed value and the response's status; a 2xx body that cannot be read
\* gives network-error.
C33_TransportContract ==
    /\ C33_Common
    /\ (ViaFetch /\ Is2xx(done.wire)) =>
           LET w == done.wire
               res == done.httpRes
               source == IF IsSse(w.text) THEN SseData(w.text) ELSE w.text
           IN  /\ ~w.readable => ErrorOfKind(res, "network-error")
               /\ (w.readable /\ (source = Null \/ ~JsonParses(source))) =>
                      ErrorOfKind(res, "parse-error")
               /\ (w.readable /\ source # Null /\ JsonParses(source)) =>
                      /\ res.type = "success"
                      /\ res.data = JSONParse(source)
                      /\ res.status = w.status

\* a 200 whose body is an event frame is a success
C33_Witness ==
    /\ ViaFetch
    /\ done.wire.kind = "response" /\ done.wire.status = 200
    /\ done.wire.readable /\ done.wire.text = "sse:result"
    /\ done.httpRes.type = "success"
    /\ done.httpRes.data = [jsonrpc |-> "2.0", id |-> 1, result |-> "ok"]

\* C34: when an initialize request succeeds at the transport with a session
\* header and a body that is not a valid JSON-RPC response, the session is
\* set to the header's value and the caller gets the error -32603 "Invalid
\* response format from target server".
InvalidHandshakeWithSession ==
    /\ Returned /\ IsHandshake(done)
    /\ done.httpRes.type = "success"
    /\ CarriedIds(done.httpRes.headers) # {}
    /\ ~isValidJSONRPCResponse(done.httpRes.data)

C34_CaptureBeforeValidation ==
    InvalidHandshakeWithSession =>
        /\ sessionId \in CarriedIds(done.httpRes.headers)
        /\ IsErrorResponseFor(done.ret, done.msg.id)
        /\ done.ret.error.code = -32603
        /\ done.ret.error.message = <<"Invalid response format from target server">>

C34_Witness ==
    /\ InvalidHandshakeWithSession
    /\ done.before = Null
    /\ sessionId = "s2"
    /\ done.httpRes.data = [jsonrpc |-> "1.0", id |-> 1, result |-> "ok"]

\* C35: a 404 taken by a call clears the session stored at that moment,
\* whichever id (or none) the call was sent with: in the step in which a call
\* that read the session returns with an HTTP 404 the session becomes empty.
C35_Step ==
    (~Returned /\ Returned' /\ ReadsSession(done') /\ done'.httpRes # Pending
       /\ Got404(done')) =>
        sessionId' = Null

C35_Stale404 == [][C35_Step]_vars

\* a call sent with s1 returned with a 404 and cleared the newer session s2
C35_Witness ==
    /\ Returned /\ ReadsSession(done) /\ done.httpRes # Pending /\ Got404(done)
    /\ done.read = "s1"
    /\ SessionHeaderOf(done.sent.headers) = "s1"
    /\ done.before = "s2"
    /\ sessionId = Null

\* C36: the session header of an outbound call is the session value the
\* invocation read when it started, before it awaited its token: at every
\* point of the invocation its header set carries the id it read (no session
\* header if it read none), and so does the post, whatever the session slot
\* holds by then.
SnapshotHeader(r) == IF Truthy(r.read) THEN r.read ELSE Null

IsAuthCall(r) == r.op \in {"getIdToken", "refreshToken"}

FetchedUsable(r) ==
    /\ r.n.fetchIdToken = 1
    /\ r.fetched.kind = "value"
    /\ ~Unusable(r.fetched.value)

C37_FreshTokenAnyExpiry ==
    /\ (Returned /\ IsAuthCall(done) /\ FetchedUsable(done)) =>
           /\ done.ret.type = "success"
           /\ done.ret.token = done.fetched.value
           /\ HasEntry(tokenCache, done.aud)
           /\ tokenCache[done.aud] =
                  [token |-> done.fetched.value, expiresAt |-> done.ret.expiresAt]
    /\ (Returned /\ IsAuthCall(done) /\ done.ret.type = "success"
          /\ done.n.getClient = 0) =>
           /\ HasEntry(tokenCache, done.aud)
           /\ done.ret.token = tokenCache[done.aud].token
           /\ isTokenValid(done.ret.expiresAt, now)

\* later than the first tick, a fetch returned a token that expired at time 0:
\* it is a success and the entry stored does not pass the validity check
C37_Witness ==
    /\ Returned /\ done.op = "getIdToken" /\ FetchedUsable(done)
    /\ done.ret.type = "success"
    /\ now = TickMs
    /\ done.ret.expiresAt < now
    /\ tokenCache[done.aud].expiresAt = done.ret.expiresAt
    /\ ~isTokenValid(tokenCache[done.aud].expiresAt, now)

\* C38 (as stated): a getIdToken call that returns an error leaves the cache
\* as it was, and when a refreshToken call has returned an error its audience
\* has no cache entry.
C38_AsStated ==
    /\ [][(~Returned /\ Returned' /\ done'.op = "getIdToken" /\ done'.ret.type = "error")
            => tokenCache' = tokenCache]_vars
    /\ [](Returned /\ done.op = "refreshToken" /\ done.ret.type = "error"
            => ~HasEntry(tokenCache, done.aud))

\* C38 (amended), the calls' own effect: a getIdToken call whose fetch fails never writes the cache: neither
\* the step that starts it, nor the step in which getClient() settles, nor the
\* step in which it returns its error changes the cache. A refreshToken call
\* whose fetch fails changes the cache only at its start, where it deletes
\* the audience's entry, valid or not; the step in which it returns its error
\* restores nothing. An entry found after a failed refresh was stored by
\* another call's successful fetch for the audience.
NewlyReturned(op) == ~Returned /\ Returned' /\ done'.op = op

AuthFailed(r) == r.ret.type = "error"

Started(r) ==
    /\ BagCardinality(calls') = BagCardinality(calls) + 1
    /\ CopiesIn(r, calls') > CopiesIn(r, calls)

C38_Step ==
    /\ (NewlyReturned("getIdToken") /\ AuthFailed(done')) => tokenCache' = tokenCache
    /\ (NewlyReturned("refreshToken") /\ AuthFailed(done')) =>
           /\ ~HasEntry(tokenCache', done'.aud) \/ HasEntry(tokenCache, done'.aud)
           /\ done'.n.getClient = 1 => tokenCache' = tokenCache
           /\ done'.n.getClient = 0 => tokenCache' = cacheDelete(tokenCache, done'.aud)
    /\ \A r \in BagToSet(calls') :
           Started(r) =>
               /\ r.op = "getIdToken" => tokenCache' = tokenCache
               /\ r.op = "refreshToken" =>
                      /\ ~HasEntry(tokenCache', r.aud)
                      /\ tokenCache' = cacheDelete(tokenCache, r.aud)
    /\ (\E r \in InFlight : r.pc = "getClient" /\ CopiesIn(r, calls') < CopiesIn(r, calls)) =>
           tokenCache' = tokenCache

C38_CacheOnFailure == [][C38_Step]_vars

\* a refresh evicted an entry that was valid for more than 5 minutes, its
\* fetch failed, and the audience has no entry
C38_Witness ==
    /\ Returned /\ done.op = "refreshToken"
    /\ done.evictedFresh
    /\ done.n.fetchIdToken = 1
    /\ AuthFailed(done)
    /\ ~HasEntry(tokenCache, done.aud)

\* C39: in the stdio server binding, when proxy.handleRequest returned a
\* response without a result member (an error response), the registered
\* handler returns the method's empty default ({} , or an object holding an
\* empty list) and no error: what it returns has no error member.
Replied == done.pc = "replied"

C39_ErrorsBecomeDefaults ==
    (Replied /\ "result" \notin DOMAIN done.proxyResponse) =>
        /\ done.reply.defaulted
        /\ done.reply.returned = DefaultResult(done.msg.method)
        /\ done.reply.returned \in {EmptyObject, [tools |-> <<>>]}
        /\ "error" \notin DOMAIN done.reply.returned

\* an authentication failure of tools/list reaches the client as {tools: []}
C39_Witness ==
    /\ Replied
    /\ done.msg.method = "tools/list"
    /\ "error" \in DOMAIN done.proxyResponse
    /\ done.proxyResponse.error.code = -32603
    /\ StartsWith(done.proxyResponse.error.message, "Authentication failed: ")
    /\ done.reply.returned = [tools |-> <<>>]
====
